---- MODULE Spec2Model ----
(***************************************************************************)
(* Model of the reconciliation engine of custom_list (validator.py,        *)
(* normalize-shipping.py, convert-excel.py).  Text is modelled as a         *)
(* sequence of one-character strings so that case folding, stripping and    *)
(* pattern search are computed character by character.                      *)
(***************************************************************************)
EXTENDS Integers, Sequences, FiniteSets, TLC

VARIABLES
    \* clean_pn_value applied to an input cell and to a shipping cell
    pn_value, ref_value, pn_key, ref_key, pn_key2,
    \* is_header_row applied to one row of a grid
    row, hdr_pc, matched, is_header,
    \* the header locators applied to one grid
    grid, located,
    \* validate_columns applied to one input row and its shipping row
    col_input_row, col_shipping_row, col_pc, similarity, col_errors,
    \* validate_duty_info applied to one input row
    duty_rates, duty_input_row, duty_pc, duty_errors, duty_raised,
    \* validate_all pairing the sheets of the two workbooks
    input_sheets, input_data, shipping_names, match_i, matched_pairs,
    \* validate_all validating the matched pairs: the pairs, the duty table,
    \* the collected errors, the sheets whose validation raised, the position
    \* in the loops and the locals of validate_sheet (input_row, input_pn,
    \* alt_pn, shipping_row) in its latest iteration
    pairs, run_duty_rates, validation_errors, failed_sheets, pair_i, run_pc,
    shipping_index, row_i, cur_input_row, cur_input_pn, cur_alt_pn, cur_shipping_row,
    \* the rows of validation_report.xlsx
    report,
    \* process_input_file over the sheets of a workbook, and extract_valid_data
    \* applied to one frame
    xl, xl_i, processed, ext_df, ext_pc, ext_result, extract_log,
    \* main(): which of the three files parse as workbooks, the --debug flag,
    \* the normalized files, the position in main, the number of validation
    \* errors collected, the logging level, the exit status of the process (-1
    \* while it runs) and
    \* whether validation_report.xlsx was written
    readable, debug, normalized_input, normalized_shipping, main_pc, collected, log_level, exit_status, report_written,
    \* the two schema normalizers applied to one header row: clean_headers
    \* (normalize-shipping.py) and the standardization loop of extract_valid_data
    headers, clean_pc, std_pc, cleaned_headers, standardized,
    \* ExcelConverter.process_excel over the sheets of an invoice workbook, with
    \* the locals of process_sheet
    conv_book, conv_sheet, conv_idx, conv_header_row, current_invoice, current_data, sheet_data, all_processed_data, conv_pc, conv_output

pnVars == <<pn_value, ref_value, pn_key, ref_key, pn_key2>>
hdrVars == <<row, hdr_pc, matched, is_header>>
locVars == <<grid, located>>
colVars == <<col_input_row, col_shipping_row, col_pc, similarity, col_errors>>
dutyVars == <<duty_rates, duty_input_row, duty_pc, duty_errors, duty_raised>>

matchVars == <<input_sheets, input_data, shipping_names, match_i, matched_pairs>>

runVars == <<pairs, run_duty_rates, validation_errors, failed_sheets, pair_i, run_pc,
             shipping_index, row_i, cur_input_row, cur_input_pn, cur_alt_pn, cur_shipping_row,
             report>>

extVars == <<xl, xl_i, processed, ext_df, ext_pc, ext_result, extract_log>>

mainVars == <<readable, debug, normalized_input, normalized_shipping, main_pc, collected, log_level, exit_status, report_written>>

normVars == <<headers, clean_pc, std_pc, cleaned_headers, standardized>>

convVars == <<conv_book, conv_sheet, conv_idx, conv_header_row, current_invoice, current_data, sheet_data, all_processed_data, conv_pc, conv_output>>

vars == <<pnVars, hdrVars, locVars, colVars, dutyVars, matchVars, runVars, extVars, mainVars, normVars, convVars>>

----------------------------------------------------------------------------
(* Characters and Python string primitives                                 *)

UpperAlpha == <<"A","B","C","D","E","F","G","H","I","J","K","L","M",
                "N","O","P","Q","R","S","T","U","V","W","X","Y","Z">>
LowerAlpha == <<"a","b","c","d","e","f","g","h","i","j","k","l","m",
                "n","o","p","q","r","s","t","u","v","w","x","y","z">>
DigitChars == <<"0","1","2","3","4","5","6","7","8","9">>

Range(f) == {f[i] : i \in DOMAIN f}

UpperSet == Range(UpperAlpha)
LowerSet == Range(LowerAlpha)
DigitSet == Range(DigitChars)

IsUpperAZ(c) == c \in UpperSet
IsLowerAZ(c) == c \in LowerSet
IsDigit(c) == c \in DigitSet
IsSpace(c) == c \in {" ", "\t", "\n", "\r"}

\* str.upper() / str.lower() on one character
UpperTable == [c \in LowerSet |-> UpperAlpha[CHOOSE i \in 1..26 : LowerAlpha[i] = c]]
LowerTable == [c \in UpperSet |-> LowerAlpha[CHOOSE i \in 1..26 : UpperAlpha[i] = c]]
UpperChar(c) == IF IsLowerAZ(c) THEN UpperTable[c] ELSE c
LowerChar(c) == IF IsUpperAZ(c) THEN LowerTable[c] ELSE c

StrUpper(s) == [i \in 1..Len(s) |-> UpperChar(s[i])]
StrLower(s) == [i \in 1..Len(s) |-> LowerChar(s[i])]

\* str.strip(): drop leading and trailing whitespace
StrStrip(s) ==
    LET keep == {i \in 1..Len(s) : ~IsSpace(s[i])}
    IN  IF keep = {} THEN <<>>
        ELSE LET lo == CHOOSE i \in keep : \A j \in keep : i <= j
                 hi == CHOOSE i \in keep : \A j \in keep : j <= i
             IN  SubSeq(s, lo, hi)

\* str.replace(c, ''): drop every occurrence of one character
IsNotDot(c) == c # "."
RemoveDots(s) == SelectSeq(s, IsNotDot)

\* Cell values of a grid: text, an int, a non-negative float given by its
\* integer part and the digits str() prints after the point, or a blank cell
\* (pandas NaN)
StrCell(s) == [t |-> "str", s |-> s, n |-> 0]
NumCell(n) == [t |-> "num", s |-> <<>>, n |-> n]
FloatCell(n, frac) == [t |-> "float", s |-> frac, n |-> n]
NaN == [t |-> "nan", s |-> <<>>, n |-> 0]

RECURSIVE NatDigits(_)
NatDigits(n) ==
    IF n < 10 THEN <<DigitChars[n + 1]>>
    ELSE NatDigits(n \div 10) \o <<DigitChars[(n % 10) + 1]>>

\* str(int)
IntStr(n) == IF n < 0 THEN <<"-">> \o NatDigits(0 - n) ELSE NatDigits(n)

\* str(cell)
PyStr(cell) ==
    CASE cell.t = "str" -> cell.s
      [] cell.t = "num" -> IntStr(cell.n)
      [] cell.t = "float" -> IntStr(cell.n) \o <<".">> \o cell.s
      [] cell.t = "nan" -> <<"n","a","n">>

----------------------------------------------------------------------------
(* Identifier normalizer: ExcelValidator.clean_pn_value                    *)

SENTINEL == <<"N","/","A">>
NotRun == <<"<not run>">>

\* re.sub(r'[^A-Z0-9]', '', raw_pn)
IsKeyChar(c) == IsUpperAZ(c) \/ IsDigit(c)
SubNonKeyChars(s) == SelectSeq(s, IsKeyChar)

\* a slip that forgets .upper(): lowercase letters are then stripped
clean_pn_value_noupper(pn_value_) ==
    LET raw_pn == StrStrip(PyStr(pn_value_))
        clean_pn == SubNonKeyChars(raw_pn)
    IN  IF clean_pn # <<>> THEN clean_pn ELSE SENTINEL

clean_pn_value(pn_value_) ==
    LET raw_pn == StrStrip(StrUpper(PyStr(pn_value_)))
        clean_pn == SubNonKeyChars(raw_pn)
    IN  IF clean_pn # <<>> THEN clean_pn ELSE SENTINEL

\* Bounds of the identifier cells drawn by InitPn
MaxPnLen == 3
PnAlphabet == {"a", "A", "1", "-", " "}
StringsUpTo(alphabet, n) == UNION {[1..k -> alphabet] : k \in 0..n}
PnSamples == { <<"a","b","c","-","1","2","3">>, <<"A","B","C","1","2","3">>,
               <<"P","-","1","0","0">>, <<"P","1","0","0">>, <<"N","/","A">> }
PnCells == {StrCell(s) : s \in StringsUpTo(PnAlphabet, MaxPnLen) \cup PnSamples}
              \cup {NaN, NumCell(100)}
RefCells == {StrCell(s) : s \in StringsUpTo(PnAlphabet, MaxPnLen - 1) \cup PnSamples}
              \cup {NaN}

IdlePn ==
    /\ pn_value = NaN
    /\ ref_value = NaN
    /\ pn_key = NotRun
    /\ ref_key = NotRun
    /\ pn_key2 = NotRun

IdleHdr ==
    /\ row = <<>>
    /\ hdr_pc = "idle"
    /\ matched = {}
    /\ is_header = FALSE

IdleLoc ==
    /\ grid = <<>>
    /\ located = <<>>

IdleCol ==
    /\ col_input_row = <<>>
    /\ col_shipping_row = <<>>
    /\ col_pc = "idle"
    /\ similarity = <<>>
    /\ col_errors = <<>>

IdleDuty ==
    /\ duty_rates = <<>>
    /\ duty_input_row = <<>>
    /\ duty_pc = "idle"
    /\ duty_errors = <<>>
    /\ duty_raised = FALSE

IdleMatch ==
    /\ input_sheets = <<>>
    /\ input_data = <<>>
    /\ shipping_names = <<>>
    /\ match_i = 0
    /\ matched_pairs = <<>>

notPn == <<hdrVars, locVars, colVars, dutyVars, matchVars, runVars, extVars, mainVars, normVars, convVars>>
notHdr == <<pnVars, locVars, colVars, dutyVars, matchVars, runVars, extVars, mainVars, normVars, convVars>>
notLoc == <<pnVars, hdrVars, colVars, dutyVars, matchVars, runVars, extVars, mainVars, normVars, convVars>>
notCol == <<pnVars, hdrVars, locVars, dutyVars, matchVars, runVars, extVars, mainVars, normVars, convVars>>
notDuty == <<pnVars, hdrVars, locVars, colVars, matchVars, runVars, extVars, mainVars, normVars, convVars>>
IdleRun ==
    /\ pairs = <<>>
    /\ run_duty_rates = <<>>
    /\ validation_errors = <<>>
    /\ failed_sheets = <<>>
    /\ pair_i = 0
    /\ run_pc = "idle"
    /\ shipping_index = <<>>
    /\ row_i = 0
    /\ cur_input_row = <<>>
    /\ cur_input_pn = NotRun
    /\ cur_alt_pn = NotRun
    /\ cur_shipping_row = <<>>
    /\ report = <<>>

notMatch == <<pnVars, hdrVars, locVars, colVars, dutyVars, runVars, extVars, mainVars, normVars, convVars>>
notRun == <<pnVars, hdrVars, locVars, colVars, dutyVars, matchVars, extVars, mainVars, normVars, convVars>>

IdleExt ==
    /\ xl = <<>>
    /\ xl_i = 0
    /\ processed = <<>>
    /\ ext_df = <<>>
    /\ ext_pc = "idle"
    /\ ext_result = <<>>
    /\ extract_log = <<>>

notExt == <<pnVars, hdrVars, locVars, colVars, dutyVars, matchVars, runVars, mainVars, normVars, convVars>>

IdleMain ==
    /\ readable = <<>>
    /\ debug = FALSE
    /\ normalized_input = "absent"
    /\ normalized_shipping = "absent"
    /\ main_pc = "idle"
    /\ collected = 0
    /\ log_level = "INFO"
    /\ exit_status = -1
    /\ report_written = FALSE

notMain == <<pnVars, hdrVars, locVars, colVars, dutyVars, matchVars, runVars, extVars, normVars, convVars>>

IdleNorm ==
    /\ headers = <<>>
    /\ clean_pc = "idle"
    /\ std_pc = "idle"
    /\ cleaned_headers = <<>>
    /\ standardized = <<>>

notNorm == <<pnVars, hdrVars, locVars, colVars, dutyVars, matchVars, runVars, extVars, mainVars, convVars>>

IdleConv ==
    /\ conv_book = <<>>
    /\ conv_sheet = 0
    /\ conv_idx = 0
    /\ conv_header_row = <<>>
    /\ current_invoice = <<>>
    /\ current_data = <<>>
    /\ sheet_data = <<>>
    /\ all_processed_data = <<>>
    /\ conv_pc = "idle"
    /\ conv_output = <<>>

notConv == <<pnVars, hdrVars, locVars, colVars, dutyVars, matchVars, runVars, extVars, mainVars, normVars>>

InitPn ==
    /\ IdleHdr
    /\ IdleLoc
    /\ IdleCol
    /\ IdleDuty
    /\ IdleMatch
    /\ IdleRun
    /\ IdleExt
    /\ IdleMain
    /\ IdleNorm
    /\ IdleConv
    /\ pn_value \in PnCells
    /\ ref_value \in RefCells
    /\ pn_key = NotRun
    /\ ref_key = NotRun
    /\ pn_key2 = NotRun

\* validator.py:246  input_pn = self.clean_pn_value(input_row.get('P/N', 'N/A'))
CleanInputPn ==
    /\ pn_key = NotRun
    /\ pn_key' = clean_pn_value(pn_value)
    /\ UNCHANGED <<pn_value, ref_value, ref_key, pn_key2, notPn>>

\* validator.py:241  shipping_df['clean_pn'] = shipping_df['P/N'].apply(self.clean_pn_value)
CleanShippingPn ==
    /\ ref_key = NotRun
    /\ ref_key' = clean_pn_value(ref_value)
    /\ UNCHANGED <<pn_value, ref_value, pn_key, pn_key2, notPn>>

\* validator.py:257  clean_pn_value is applied to a key it has already produced
CleanKeyAgain ==
    /\ pn_key # NotRun
    /\ pn_key2 = NotRun
    /\ pn_key2' = clean_pn_value(StrCell(pn_key))
    /\ UNCHANGED <<pn_value, ref_value, pn_key, ref_key, notPn>>

NextPn == CleanInputPn \/ CleanShippingPn \/ CleanKeyAgain

SpecPn == InitPn /\ [][NextPn]_vars

----------------------------------------------------------------------------
(* Claims on the identifier normalizer                                     *)

\* C1: clean_pn_value is idempotent: normalizing the key of any cell value,
\* blank values and the sentinel "N/A" included, gives the same key again.
C1_Idempotent == (pn_key2 # NotRun) => (pn_key2 = pn_key)

\* positions of the ASCII letters and digits of a text
AlnumPositions(s) == {i \in 1..Len(s) : IsUpperAZ(s[i]) \/ IsLowerAZ(s[i]) \/ IsDigit(s[i])}

\* key is the uppercased text of the cell without the characters outside [A-Z0-9]
IsUpperAlnumProjection(cell, key) ==
    LET s == PyStr(cell)
        pos == AlnumPositions(s)
        rank(i) == Cardinality({j \in pos : j <= i})
    IN  /\ Len(key) = Cardinality(pos)
        /\ \A i \in pos : key[rank(i)] = UpperChar(s[i])

KeyIsCorrect(cell, key) ==
    LET pos == AlnumPositions(PyStr(cell))
    IN  /\ (key = SENTINEL) <=> (pos = {})
        /\ (pos # {}) => IsUpperAlnumProjection(cell, key)

\* two texts differ only in punctuation, whitespace or letter case
SameIgnoringPunctAndCase(c1, c2) ==
    LET s1 == PyStr(c1)
        s2 == PyStr(c2)
        p1 == AlnumPositions(s1)
        p2 == AlnumPositions(s2)
        nth(p, k) == CHOOSE i \in p : Cardinality({j \in p : j <= i}) = k
    IN  /\ Cardinality(p1) = Cardinality(p2)
        /\ \A k \in 1..Cardinality(p1) :
               UpperChar(s1[nth(p1, k)]) = UpperChar(s2[nth(p2, k)])

\* C2: the key of every cell is its text uppercased with every character
\* outside [A-Z0-9] removed, "N/A" exactly when nothing is left; an input cell
\* and a shipping cell that differ only in punctuation, whitespace or case
\* get the same key.
C2_KeyShape ==
    /\ (pn_key # NotRun) => KeyIsCorrect(pn_value, pn_key)
    /\ (ref_key # NotRun) => KeyIsCorrect(ref_value, ref_key)
    /\ (pn_key # NotRun /\ ref_key # NotRun
          /\ SameIgnoringPunctAndCase(pn_value, ref_value)) => (pn_key = ref_key)

C2_Witness ==
    /\ pn_value = StrCell(<<"a","b","c","-","1","2","3">>)
    /\ ref_value = StrCell(<<"A","B","C","1","2","3">>)
    /\ pn_key = <<"A","B","C","1","2","3">>
    /\ ref_key = pn_key

----------------------------------------------------------------------------
(* Header detection: ExcelValidator.is_header_row                          *)

\* \w of the re module, ASCII part
WordSet == UpperSet \cup LowerSet \cup DigitSet \cup {"_"}
IsWordChar(c) == c \in WordSet

CharAt(s, p) == IF p \in 1..Len(s) THEN s[p] ELSE ""

\* \b holds between position p-1 and position p of s
WordBoundary(s, p) == IsWordChar(CharAt(s, p - 1)) # IsWordChar(CharAt(s, p))

\* the literal lit occurs in s at position p
LitAt(s, p, lit) ==
    /\ p >= 1
    /\ p + Len(lit) - 1 <= Len(s)
    /\ s[p] = lit[1]
    /\ \A k \in 2..Len(lit) : s[p + k - 1] = lit[k]

\* .* matches s[from..to]: any characters but a line feed
DotStar(s, from, to) == \A k \in from..to : s[k] # "\n"

\* \s* matches s[from..to]
SpaceStar(s, from, to) == \A k \in from..to : s[k] \in {" ", "\t", "\n", "\r", "\f"}

\* re.search(r'\bWORD\b.*\bno', s)
SearchWordThenNo(s, word) ==
    \E i \in 1..Len(s) :
        /\ LitAt(s, i, word)
        /\ WordBoundary(s, i)
        /\ WordBoundary(s, i + Len(word))
        /\ \E j \in (i + Len(word))..Len(s) :
               /\ LitAt(s, j, <<"n","o">>)
               /\ WordBoundary(s, j)
               /\ DotStar(s, i + Len(word), j - 1)

\* re.search(r'\b(p/n|part\s*no)\b', s)
SearchPart(s) ==
    \E i \in 1..Len(s) :
        /\ s[i] = "p"
        /\ WordBoundary(s, i)
        /\ \/ /\ LitAt(s, i, <<"p","/","n">>)
              /\ WordBoundary(s, i + 3)
           \/ /\ LitAt(s, i, <<"p","a","r","t">>)
              /\ \E j \in (i + 4)..Len(s) :
                     /\ LitAt(s, j, <<"n","o">>)
                     /\ SpaceStar(s, i + 4, j - 1)
                     /\ WordBoundary(s, j + 2)

\* re.search(r'\bquantity\b.*\b(pcs|pc)\b', s)
SearchQuantity(s) ==
    \E i \in 1..Len(s) :
        /\ LitAt(s, i, <<"q","u","a","n","t","i","t","y">>)
        /\ WordBoundary(s, i)
        /\ WordBoundary(s, i + 8)
        /\ \E j \in (i + 8)..Len(s) :
               /\ \/ LitAt(s, j, <<"p","c","s">>) /\ WordBoundary(s, j + 3)
                  \/ LitAt(s, j, <<"p","c">>) /\ WordBoundary(s, j + 2)
               /\ WordBoundary(s, j)
               /\ DotStar(s, i + 8, j - 1)

\* the keys of the dict `required`
required == {"item", "model", "part", "quantity"}

\* re.search(required[name], clean_row)
SearchRequired(name, clean_row) ==
    CASE name = "item" -> SearchWordThenNo(clean_row, <<"i","t","e","m">>)
      [] name = "model" -> SearchWordThenNo(clean_row, <<"m","o","d","e","l">>)
      [] name = "part" -> SearchPart(clean_row)
      [] name = "quantity" -> SearchQuantity(clean_row)

\* ' '.join(str(cell).strip() for cell in row.values)
RECURSIVE JoinCells(_)
JoinCells(cells) ==
    IF cells = <<>> THEN <<>>
    ELSE IF Len(cells) = 1 THEN StrStrip(PyStr(cells[1]))
    ELSE StrStrip(PyStr(cells[1])) \o <<" ">> \o JoinCells(Tail(cells))

clean_row_of(row_) == StrLower(JoinCells(row_))

\* the patterns of `required` found in the row
matched_patterns(row_) ==
    LET found[clean_row \in {clean_row_of(row_)}] ==
            {name \in required : SearchRequired(name, clean_row)}
    IN  found[clean_row_of(row_)]

match_count(row_) == Cardinality(matched_patterns(row_))

\* a slip in the quorum: two matches are taken for a header
is_header_row_quorum2(row_) == match_count(row_) >= 2

is_header_row(row_) == match_count(row_) >= 3

\* Bounds of the rows drawn by InitHdr
MaxCols == 4
HdrTexts == { <<"I","T","E","M"," ","N","O","S",".">>,
              <<"m","o","d","e","l"," ","n","o">>,
              <<"P","/","N">>,
              <<"Q","U","A","N","T","I","T","Y"," ","(","P","C",")">>,
              <<"D","e","s","c","r","i","p","t","i","o","n">>,
              <<"M","o","d","e","l">> }
HdrCells == {StrCell(s) : s \in HdrTexts} \cup {NaN}
HdrRows == UNION {[1..k -> HdrCells] : k \in 1..MaxCols}

InitHdr ==
    /\ IdlePn
    /\ IdleLoc
    /\ IdleCol
    /\ IdleDuty
    /\ IdleMatch
    /\ IdleRun
    /\ IdleExt
    /\ IdleMain
    /\ IdleNorm
    /\ IdleConv
    /\ row \in HdrRows
    /\ hdr_pc = "start"
    /\ matched = {}
    /\ is_header = FALSE

\* validator.py:42-59  one call of is_header_row
IsHeaderRow ==
    /\ hdr_pc = "start"
    /\ matched' = matched_patterns(row)
    /\ is_header' = is_header_row(row)
    /\ hdr_pc' = "done"
    /\ UNCHANGED <<row, notHdr>>

NextHdr == IsHeaderRow

SpecHdr == InitHdr /\ [][NextHdr]_vars

----------------------------------------------------------------------------
(* Claims on header detection                                              *)

\* header texts that spell each required concept, compared in lower case
ConceptSpellings(name) ==
    CASE name = "item" -> { <<"i","t","e","m"," ","n","o",".">>,
                            <<"i","t","e","m"," ","n","o","s",".">> }
      [] name = "model" -> { <<"m","o","d","e","l"," ","n","o",".">>,
                             <<"m","o","d","e","l"," ","n","o">> }
      [] name = "part" -> { <<"p","/","n">> }
      [] name = "quantity" -> { <<"q","u","a","n","t","i","t","y"," ","p","c","s">>,
                                <<"q","u","a","n","t","i","t","y"," ","(","p","c",")">> }

CellSpells(cell, name) == StrLower(StrStrip(PyStr(cell))) \in ConceptSpellings(name)

\* the concepts spelled by some cell of the row
ConceptsInCells(row_) ==
    {name \in required : \E k \in 1..Len(row_) : CellSpells(row_[k], name)}

\* blank cells and columns unrelated to the four concepts
IsUnrelatedCell(cell) ==
    \/ cell = NaN
    \/ cell = StrCell(<<"D","e","s","c","r","i","p","t","i","o","n">>)

\* every cell of the row either spells a concept or is unrelated to all of them
OnlyConceptOrUnrelatedCells(row_) ==
    \A k \in 1..Len(row_) :
        \/ IsUnrelatedCell(row_[k])
        \/ \E name \in required : CellSpells(row_[k], name)

\* C3: a row qualifies as header iff at least 3 of the 4 required concepts
\* are found in it; a row holding all four concepts, in any cell order and
\* casing, qualifies; a row holding only 2 of them does not.
C3_HeaderQuorum ==
    (hdr_pc = "done") =>
        /\ is_header <=> (Cardinality(matched) >= 3)
        /\ ConceptsInCells(row) \subseteq matched
        /\ (ConceptsInCells(row) = required) => is_header
        /\ (Cardinality(matched) = 2) => ~is_header
        /\ OnlyConceptOrUnrelatedCells(row) =>
               (is_header <=> (Cardinality(ConceptsInCells(row)) >= 3))

C3_Witness ==
    /\ hdr_pc = "done"
    /\ row = << StrCell(<<"P","/","N">>),
                StrCell(<<"Q","U","A","N","T","I","T","Y"," ","(","P","C",")">>),
                StrCell(<<"m","o","d","e","l"," ","n","o">>),
                StrCell(<<"I","T","E","M"," ","N","O","S",".">>) >>
    /\ matched = required
    /\ is_header

----------------------------------------------------------------------------
(* Header locators: extract_valid_data, load_shipping_data,                *)
(* load_duty_rates (validator.py) and find_header_row                      *)
(* (normalize-shipping.py)                                                 *)

\* result of a locator that found no header (None / the empty DataFrame)
None == -1
Pending == -2

\* rows scanned by df.head(5) and range(min(5, len(df)))
HeaderWindow == 5

Min(a, b) == IF a <= b THEN a ELSE b

\* validator.py:77-83  for idx, row in df.head(5).iterrows(): ... break / else
RECURSIVE extract_scan(_, _)
extract_scan(df, idx) ==
    IF idx >= Min(HeaderWindow, Len(df)) THEN None
    ELSE IF is_header_row(df[idx + 1]) THEN idx
    ELSE extract_scan(df, idx + 1)

\* a slip that scans every row of the grid
extract_header_row_unbounded(df) ==
    IF \E k \in 1..Len(df) : is_header_row(df[k])
    THEN (CHOOSE k \in 1..Len(df) :
              is_header_row(df[k]) /\ \A j \in 1..(k - 1) : ~is_header_row(df[j])) - 1
    ELSE None

extract_header_row(df) == extract_scan(df, 0)

\* validator.py:180-185  for idx in range(min(5, len(df))): ... break
RECURSIVE shipping_scan(_, _)
shipping_scan(df, idx) ==
    IF idx >= Min(HeaderWindow, Len(df)) THEN None
    ELSE IF is_header_row(df[idx + 1]) THEN idx
    ELSE shipping_scan(df, idx + 1)

shipping_header_row(df) == shipping_scan(df, 0)

\* validator.py:208  'Item name' in row.values and 'India HS code' in row.values
ITEM_NAME == <<"I","t","e","m"," ","n","a","m","e">>
INDIA_HS_CODE == <<"I","n","d","i","a"," ","H","S"," ","c","o","d","e">>
is_duty_header(row_) ==
    /\ \E k \in 1..Len(row_) : row_[k] = StrCell(ITEM_NAME)
    /\ \E k \in 1..Len(row_) : row_[k] = StrCell(INDIA_HS_CODE)

\* validator.py:206-210  for idx, row in df.iterrows(): ... break
RECURSIVE duty_scan(_, _)
duty_scan(df, idx) ==
    IF idx >= Len(df) THEN None
    ELSE IF is_duty_header(df[idx + 1]) THEN idx
    ELSE duty_scan(df, idx + 1)

duty_header_row(df) == duty_scan(df, 0)

\* normalize-shipping.py:69  required_columns, lower-cased as in line 76
required_columns ==
    { <<"I","t","e","m"," ","N","o","s",".">>, <<"I","t","e","m"," ","N","o",".">>,
      <<"M","o","d","e","l"," ","N","o",".">>, <<"P","/","N">>,
      <<"Q","u","a","n","t","i","t","y"," ","P","C","S">>,
      <<"U","n","i","t"," ","P","r","i","c","e"," ","U","S","D">>,
      <<"A","m","o","u","n","t"," ","U","S","D">> }
required_columns_lower == {StrLower(col) : col \in required_columns}

\* col.lower() in row_str
Contains(s, lit) == \E p \in 1..Len(s) : LitAt(s, p, lit)

\* normalize-shipping.py:72-78  match_count >= 3
is_shipping_table_header(row_) ==
    LET count[row_str \in {clean_row_of(row_)}] ==
            Cardinality({col \in required_columns_lower : Contains(row_str, col)})
    IN  count[clean_row_of(row_)] >= 3

\* normalize-shipping.py:71-81  for idx, row in df.iterrows(): ... return idx / return None
RECURSIVE find_scan(_, _)
find_scan(df, idx) ==
    IF idx >= Len(df) THEN None
    ELSE IF is_shipping_table_header(df[idx + 1]) THEN idx
    ELSE find_scan(df, idx + 1)

find_header_row(df) == find_scan(df, 0)

Locators == {"extract_valid_data", "load_shipping_data", "load_duty_rates", "find_header_row"}

\* Bounds of the grids drawn by InitLoc
MaxRows == 6
HeaderRow == << StrCell(<<"I","t","e","m"," ","N","o",".">>),
                StrCell(<<"M","o","d","e","l"," ","N","o",".">>),
                StrCell(<<"P","/","N">>),
                StrCell(<<"Q","u","a","n","t","i","t","y"," ","P","C","S">>) >>
DutyHeaderRow == << StrCell(ITEM_NAME), StrCell(INDIA_HS_CODE), NaN, NaN >>
DataRow == << NumCell(1), StrCell(<<"M","1">>), StrCell(<<"P","1","0","0">>), NumCell(5) >>
GridRows == {HeaderRow, DutyHeaderRow, DataRow}
Grids == UNION {[1..k -> GridRows] : k \in 0..MaxRows}

InitLoc ==
    /\ IdlePn
    /\ IdleHdr
    /\ IdleCol
    /\ IdleDuty
    /\ IdleMatch
    /\ IdleRun
    /\ IdleExt
    /\ IdleMain
    /\ IdleNorm
    /\ IdleConv
    /\ grid \in Grids
    /\ located = [name \in Locators |-> Pending]

\* validator.py:76-83  header search of extract_valid_data
ExtractLocate ==
    /\ located # <<>>
    /\ located["extract_valid_data"] = Pending
    /\ located' = [located EXCEPT !["extract_valid_data"] = extract_header_row(grid)]
    /\ UNCHANGED <<grid, notLoc>>

\* validator.py:179-185  header search of load_shipping_data
ShippingLocate ==
    /\ located # <<>>
    /\ located["load_shipping_data"] = Pending
    /\ located' = [located EXCEPT !["load_shipping_data"] = shipping_header_row(grid)]
    /\ UNCHANGED <<grid, notLoc>>

\* validator.py:205-217  header search of load_duty_rates
DutyLocate ==
    /\ located # <<>>
    /\ located["load_duty_rates"] = Pending
    /\ located' = [located EXCEPT !["load_duty_rates"] = duty_header_row(grid)]
    /\ UNCHANGED <<grid, notLoc>>

\* normalize-shipping.py:46, 66-81  header search of extract_shipping_table
FindHeaderRow ==
    /\ located # <<>>
    /\ located["find_header_row"] = Pending
    /\ located' = [located EXCEPT !["find_header_row"] = find_header_row(grid)]
    /\ UNCHANGED <<grid, notLoc>>

NextLoc == ExtractLocate \/ ShippingLocate \/ DutyLocate \/ FindHeaderRow

SpecLoc == InitLoc /\ [][NextLoc]_vars

----------------------------------------------------------------------------
(* Claims on the header locators                                           *)

\* r is the first index among 0..(limit-1) whose row qualifies for the locator,
\* None when no row of that window qualifies
Qualifies(name, row_) ==
    CASE name \in {"extract_valid_data", "load_shipping_data"} -> is_header_row(row_)
      [] name = "load_duty_rates" -> is_duty_header(row_)
      [] name = "find_header_row" -> is_shipping_table_header(row_)

QualifyingRows == [name \in Locators |-> {r \in GridRows : Qualifies(name, r)}]

IsFirstQualifyingWithin(name, r, limit) ==
    LET window == {i \in 0..(Len(grid) - 1) : i < limit}
        hits == {i \in window : grid[i + 1] \in QualifyingRows[name]}
    IN  IF hits = {} THEN r = None
        ELSE r \in hits /\ \A i \in hits : r <= i

----------------------------------------------------------------------------
(* difflib.SequenceMatcher(None, a, b).ratio() as used by validate_text    *)
(* and validate_all; texts are far below the 200 elements at which the     *)
(* automatic junk heuristic starts.  Positions are 1-based, hi exclusive.   *)

\* length of the common run of a[i..ahi) and b[j..bhi)
RECURSIVE CommonRun(_, _, _, _, _, _)
CommonRun(a, b, i, j, ahi, bhi) ==
    IF i >= ahi \/ j >= bhi \/ a[i] # b[j] THEN 0
    ELSE 1 + CommonRun(a, b, i + 1, j + 1, ahi, bhi)

\* find_longest_match: the longest block, of those the one starting earliest
\* in a, of those the one starting earliest in b
find_longest_match(a, b, alo, ahi, blo, bhi) ==
    LET starts == {ij \in (alo..(ahi - 1)) \X (blo..(bhi - 1)) : a[ij[1]] = b[ij[2]]}
        runs == {<<ij[1], ij[2], CommonRun(a, b, ij[1], ij[2], ahi, bhi)>> : ij \in starts}
    IN  IF runs = {} THEN <<alo, blo, 0>>
        ELSE CHOOSE t \in runs :
                 \A u \in runs :
                     \/ t[3] > u[3]
                     \/ t[3] = u[3] /\ t[1] < u[1]
                     \/ t[3] = u[3] /\ t[1] = u[1] /\ t[2] <= u[2]

\* get_matching_blocks: total size of the blocks found left and right of the
\* longest one
RECURSIVE matching_size(_, _, _, _, _, _)
matching_size(a, b, alo, ahi, blo, bhi) ==
    IF alo >= ahi \/ blo >= bhi THEN 0
    ELSE LET size[m \in {find_longest_match(a, b, alo, ahi, blo, bhi)}] ==
                 IF m[3] = 0 THEN 0
                 ELSE m[3] + matching_size(a, b, alo, m[1], blo, m[2])
                           + matching_size(a, b, m[1] + m[3], ahi, m[2] + m[3], bhi)
         IN  size[find_longest_match(a, b, alo, ahi, blo, bhi)]

\* ratio() = 2.0 * matches / length, 1.0 for two empty texts; kept as a fraction
ratio(a, b) ==
    IF Len(a) + Len(b) = 0 THEN <<1, 1>>
    ELSE <<2 * matching_size(a, b, 1, Len(a) + 1, 1, Len(b) + 1), Len(a) + Len(b)>>

\* r < num/den for a fraction r
RatioLess(r, num, den) == r[1] * den < num * r[2]
\* r > num/den for a fraction r
RatioGreater(r, num, den) == r[1] * den > num * r[2]

----------------------------------------------------------------------------
(* Field validator: ExcelValidator.validate_columns / validate_text /      *)
(* log_error.  A row is a function from column names to cells.             *)

\* row.get(col, default)
RowGet(row_, col, default) == IF col \in DOMAIN row_ THEN row_[col] ELSE default

\* a slip that drops an error already listed for the sheet and identifier
log_error_dedup(errors, sheet_name, row_idx, pn, error_msg) ==
    IF \E k \in 1..Len(errors) :
           errors[k].Sheet = sheet_name /\ errors[k].PN = pn /\ errors[k].Error = error_msg
    THEN errors
    ELSE Append(errors, [Sheet |-> sheet_name, Row |-> row_idx + 1, PN |-> pn, Error |-> error_msg])

\* validator.py:388-396  log_error appends one entry, the row index made 1-based
log_error(errors, sheet_name, row_idx, pn, error_msg) ==
    Append(errors, [Sheet |-> sheet_name, Row |-> row_idx + 1, PN |-> pn, Error |-> error_msg])

\* isinstance(value, (int, float)): numbers and blank cells (NaN is a float)
is_number(cell) == cell.t \in {"num", "float", "nan"}

Abs(x) == IF x < 0 THEN 0 - x ELSE x

\* Bound on the decimals of the float cells of the model
MaxFracDigits == 2

RECURSIVE Pow10(_)
Pow10(k) == IF k = 0 THEN 1 ELSE 10 * Pow10(k - 1)

DigitValue(c) == CHOOSE d \in 0..9 : DigitChars[d + 1] = c

RECURSIVE DigitsValue(_)
DigitsValue(ds) ==
    IF ds = <<>> THEN 0
    ELSE 10 * DigitsValue(SubSeq(ds, 1, Len(ds) - 1)) + DigitValue(ds[Len(ds)])

\* the value of a number cell in units of 10^-MaxFracDigits
ScaledValue(cell) ==
    IF cell.t = "float"
    THEN cell.n * Pow10(MaxFracDigits)
           + DigitsValue(cell.s) * Pow10(MaxFracDigits - Len(cell.s))
    ELSE cell.n * Pow10(MaxFracDigits)

\* rel_tol=0.01 as the fraction 1/RelTolDen
RelTolDen == 100

\* math.isclose(a, b, rel_tol=0.01) with the default abs_tol=0.0:
\*   a == b, or diff <= |rel_tol*b|, or diff <= |rel_tol*a|, or diff <= abs_tol;
\* NaN is close to nothing
\* a slip that requires the difference to be within the tolerance of both values
isclose_strong(a, b) ==
    IF a.t = "nan" \/ b.t = "nan" THEN FALSE
    ELSE LET diff == Abs(ScaledValue(b) - ScaledValue(a))
         IN  \/ ScaledValue(a) = ScaledValue(b)
             \/ /\ diff * RelTolDen <= Abs(ScaledValue(b))
                /\ diff * RelTolDen <= Abs(ScaledValue(a))

isclose(a, b) ==
    IF a.t = "nan" \/ b.t = "nan" THEN FALSE
    ELSE LET diff == Abs(ScaledValue(b) - ScaledValue(a))
         IN  \/ ScaledValue(a) = ScaledValue(b)
             \/ diff * RelTolDen <= Abs(ScaledValue(b))
             \/ diff * RelTolDen <= Abs(ScaledValue(a))
             \/ diff <= 0

\* threshold=0.85 of validate_text
ThresholdNum == 85
ThresholdDen == 100

EMPTY == StrCell(<<>>)
NA_CELL == StrCell(SENTINEL)

\* validator.py:331-334  the two lower-cased texts and their similarity
input_text_of(input_row, col_name) == StrLower(PyStr(RowGet(input_row, col_name, EMPTY)))
ref_text_of(reference_row, col_name) == StrLower(PyStr(RowGet(reference_row, col_name, EMPTY)))
text_similarity(input_row, reference_row, col_name) ==
    ratio(input_text_of(input_row, col_name), ref_text_of(reference_row, col_name))

\* a slip that also flags a similarity equal to the threshold
similarity_is_low_inclusive(sim) == ~RatioGreater(sim, ThresholdNum, ThresholdDen)

\* similarity < threshold
similarity_is_low(sim) == RatioLess(sim, ThresholdNum, ThresholdDen)

\* validator.py:328-341
validate_text(errors, input_row, reference_row, col_name, sheet_name, row_idx) ==
    IF similarity_is_low(text_similarity(input_row, reference_row, col_name))
    THEN log_error(errors, sheet_name, row_idx,
                   clean_pn_value(RowGet(input_row, "P/N", NA_CELL)),
                   [kind |-> "Text similarity low in column", col |-> col_name,
                    a |-> input_text_of(input_row, col_name),
                    b |-> ref_text_of(reference_row, col_name)])
    ELSE errors

\* validator.py:277-291  the body of the loop of validate_columns for one column
validate_column(errors, input_row, shipping_row, col, sheet_name, row_idx) ==
    LET input_val == RowGet(input_row, col, NA_CELL)
        shipping_val == RowGet(shipping_row, col, NA_CELL)
    IN  IF is_number(input_val) /\ is_number(shipping_val)
        THEN IF ~isclose(input_val, shipping_val)
             THEN log_error(errors, sheet_name, row_idx,
                            clean_pn_value(RowGet(input_row, "P/N", NA_CELL)),
                            [kind |-> "Value mismatch in column", col |-> col,
                             a |-> PyStr(input_val), b |-> PyStr(shipping_val)])
             ELSE errors
        ELSE validate_text(errors, input_row, shipping_row, col, sheet_name, row_idx)

\* validator.py:273-291  for col in columns
RECURSIVE validate_columns(_, _, _, _, _, _)
validate_columns(errors, input_row, shipping_row, columns, sheet_name, row_idx) ==
    IF columns = <<>> THEN errors
    ELSE validate_columns(
             validate_column(errors, input_row, shipping_row, Head(columns), sheet_name, row_idx),
             input_row, shipping_row, Tail(columns), sheet_name, row_idx)

\* Bounds of the cells compared under SpecCol
MaxSmallNum == 2
MaxTextLen == 2
NumSamples == {99, 100, 101, 102, 1000, 1009, 1010, 1011, 1020, -100, -101, -102}
BEARING == <<"B","e","a","r","i","n","g"," ","A","s","s","e","m","b","l","y">>
BEARING_UPPER == <<"B","E","A","R","I","N","G"," ","A","S","S","E","M","B","L","Y"," ">>
GASKET == <<"G","a","s","k","e","t">>
\* two texts of 20 characters sharing 17: similarity exactly 0.85
SHARE17_A == <<"a","b","c","d","e","f","g","h","i","j","k","l","m","n","o","p","q","X","Y","Z">>
SHARE17_B == <<"a","b","c","d","e","f","g","h","i","j","k","l","m","n","o","p","q","1","2","3">>
TextSamples == {BEARING, BEARING_UPPER, GASKET, SHARE17_A, SHARE17_B, <<"1","0","0","0">>}
CompareCells ==
    {NumCell(n) : n \in (0..MaxSmallNum) \cup NumSamples}
        \cup {StrCell(t) : t \in StringsUpTo({"a", "B"}, MaxTextLen) \cup TextSamples}
        \cup {NaN}
P100 == StrCell(<<"P","1","0","0">>)
COMPARED == "Description"
ColRowWith(v) == [c \in {"P/N", COMPARED} |-> IF c = "P/N" THEN P100 ELSE v]
ColRowWithout == [c \in {"P/N"} |-> P100]
ColRows == {ColRowWith(v) : v \in CompareCells} \cup {ColRowWithout}
COL_SHEET == <<"S","1">>

InitCol ==
    /\ IdlePn
    /\ IdleHdr
    /\ IdleLoc
    /\ IdleDuty
    /\ IdleMatch
    /\ IdleRun
    /\ IdleExt
    /\ IdleMain
    /\ IdleNorm
    /\ IdleConv
    /\ col_input_row \in ColRows
    /\ col_shipping_row \in ColRows
    /\ col_pc = "start"
    /\ similarity = <<>>
    /\ col_errors = <<>>

\* validator.py:265-268, 273-291  validate_columns on one resolved pair
ValidateColumns ==
    /\ col_pc = "start"
    /\ col_errors' = validate_columns(col_errors, col_input_row, col_shipping_row,
                                      <<COMPARED>>, COL_SHEET, 0)
    /\ similarity' =
           IF /\ is_number(RowGet(col_input_row, COMPARED, NA_CELL))
              /\ is_number(RowGet(col_shipping_row, COMPARED, NA_CELL))
           THEN <<>>
           ELSE text_similarity(col_input_row, col_shipping_row, COMPARED)
    /\ col_pc' = "done"
    /\ UNCHANGED <<col_input_row, col_shipping_row, notCol>>

NextCol == ValidateColumns

SpecCol == InitCol /\ [][NextCol]_vars

----------------------------------------------------------------------------
(* Claims on the field validator                                           *)

Max(a, b) == IF a >= b THEN a ELSE b

ColInput == RowGet(col_input_row, COMPARED, NA_CELL)
ColShipping == RowGet(col_shipping_row, COMPARED, NA_CELL)
BothNumeric == ColInput.t = "num" /\ ColShipping.t = "num"
ComparesNumbers(a, b) == ColInput = NumCell(a) /\ ColShipping = NumCell(b)
ComparesTexts(a, b) == ColInput = StrCell(a) /\ ColShipping = StrCell(b)

\* C5: for two numeric values a and b no mismatch error is emitted iff
\* |a-b| <= 0.01*max(|a|,|b|); 1000 vs 1009 emits no error and 1000 vs 1020
\* emits exactly one mismatch error.
C5_NumericTolerance ==
    (col_pc = "done" /\ BothNumeric) =>
        /\ (col_errors = <<>>) <=>
               (100 * Abs(ColInput.n - ColShipping.n)
                    <= Max(Abs(ColInput.n), Abs(ColShipping.n)))
        /\ Len(col_errors) <= 1
        /\ \A k \in 1..Len(col_errors) :
               col_errors[k].Error.kind = "Value mismatch in column"
        /\ ComparesNumbers(1000, 1009) => col_errors = <<>>
        /\ ComparesNumbers(1000, 1020) => Len(col_errors) = 1

C5_Witness ==
    /\ col_pc = "done"
    /\ ComparesNumbers(1000, 1020)
    /\ Len(col_errors) = 1
    /\ col_errors[1].Error.kind = "Value mismatch in column"

TextCompared == col_pc = "done" /\ similarity # <<>>

\* a mismatch error is emitted iff the similarity recorded is below 0.85
ErrorIffBelowThreshold ==
    /\ (col_errors # <<>>) <=> (100 * similarity[1] < 85 * similarity[2])
    /\ Len(col_errors) <= 1
    /\ \A k \in 1..Len(col_errors) :
           col_errors[k].Error.kind = "Text similarity low in column"

\* C6 (as claimed): a mismatch error is emitted iff the similarity of the
\* lower-cased texts is < 0.85; "Bearing Assembly" vs "BEARING ASSEMBLY " has
\* similarity 1.0 and no error; "Bearing Assembly" vs "Gasket" gives an error.
C6_TextSimilarityAsClaimed ==
    TextCompared =>
        /\ ErrorIffBelowThreshold
        /\ ComparesTexts(BEARING, BEARING_UPPER) =>
               (similarity[1] = similarity[2] /\ col_errors = <<>>)
        /\ ComparesTexts(BEARING, GASKET) => Len(col_errors) = 1

\* C6 (amended): as claimed, but the trailing space is not stripped:
\* "Bearing Assembly" vs "BEARING ASSEMBLY " has similarity 32/33 (about
\* 0.97), which is above 0.85 and emits no error.
C6_TextSimilarity ==
    TextCompared =>
        /\ ErrorIffBelowThreshold
        /\ ComparesTexts(BEARING, BEARING_UPPER) =>
               (similarity = <<32, 33>> /\ col_errors = <<>>)
        /\ ComparesTexts(BEARING, GASKET) =>
               (similarity = <<8, 22>> /\ Len(col_errors) = 1)
        /\ ComparesTexts(SHARE17_A, SHARE17_B) =>
               (similarity = <<34, 40>> /\ col_errors = <<>>)

C6_Witness ==
    /\ TextCompared
    /\ ComparesTexts(BEARING, BEARING_UPPER)
    /\ similarity = <<32, 33>>
    /\ col_errors = <<>>

\* a value that parses as a number: a number cell or a text of digits
ParsesAsNumber(cell) ==
    \/ cell.t = "num"
    \/ cell.t = "str" /\ cell.s # <<>> /\ \A k \in 1..Len(cell.s) : IsDigit(cell.s[k])
NumberOf(cell) == IF cell.t = "num" THEN cell.n ELSE DigitsValue(cell.s)

\* C22: the numeric 1% rule is applied exactly when the input value and the
\* reference value both parse as numbers (numbers held as text included),
\* the text-similarity rule in every other case.
C22_RuleDispatch ==
    (col_pc = "done" /\ ColInput # NaN /\ ColShipping # NaN) =>
        IF ParsesAsNumber(ColInput) /\ ParsesAsNumber(ColShipping)
        THEN /\ (col_errors = <<>>) <=>
                    (100 * Abs(NumberOf(ColInput) - NumberOf(ColShipping))
                         <= Max(Abs(NumberOf(ColInput)), Abs(NumberOf(ColShipping))))
             /\ \A k \in 1..Len(col_errors) :
                    col_errors[k].Error.kind = "Value mismatch in column"
        ELSE /\ (col_errors # <<>>) <=>
                    similarity_is_low(text_similarity(col_input_row, col_shipping_row, COMPARED))
             /\ \A k \in 1..Len(col_errors) :
                    col_errors[k].Error.kind = "Text similarity low in column"

----------------------------------------------------------------------------
(* Cross-reference validator: ExcelValidator.validate_duty_info            *)

\* str.rstrip(c)
RECURSIVE RStripChar(_, _)
RStripChar(s, c) ==
    IF s # <<>> /\ s[Len(s)] = c THEN RStripChar(SubSeq(s, 1, Len(s) - 1), c) ELSE s

\* f"{hs_code:.10f}" of a float cell: ten decimals, padded with zeros
RECURSIVE Zeros(_)
Zeros(k) == IF k <= 0 THEN <<>> ELSE <<"0">> \o Zeros(k - 1)
FormatFixed10(cell) == IntStr(cell.n) \o <<".">> \o cell.s \o Zeros(10 - Len(cell.s))

\* validator.py:315-319  hs_str; int(nan) raises ValueError
hs_raises(hs_code) == hs_code.t = "nan"
hs_str_of(hs_code) ==
    IF is_number(hs_code)
    THEN IF Contains(PyStr(hs_code), <<".">>)
         THEN RStripChar(RStripChar(FormatFixed10(hs_code), "0"), ".")
         ELSE IntStr(hs_code.n)
    ELSE StrStrip(PyStr(hs_code))

AllDigits(s, lo, hi) == \A k \in lo..hi : IsDigit(s[k])

\* a slip that writes the quantifier as {4,} : any longer digit string passes
hs_pattern_matches_open(s) ==
    \/ \E k \in 4..Len(s) :
           /\ AllDigits(s, 1, k)
           /\ \/ Len(s) = k
              \/ /\ Len(s) > k
                 /\ s[k + 1] = "."
                 /\ Len(s) - (k + 1) \in 1..10
                 /\ AllDigits(s, k + 2, Len(s))
    \/ \E d \in 2..(Len(s) - 1) :
           /\ s[d] = "-"
           /\ AllDigits(s, 1, d - 1)
           /\ AllDigits(s, d + 1, Len(s))

\* re.match(r'^(\d{4,10}(\.\d{1,10})?|\d+-\d+)$', hs_str)
hs_pattern_matches(s) ==
    \/ \E k \in 4..10 :
           /\ k <= Len(s)
           /\ AllDigits(s, 1, k)
           /\ \/ Len(s) = k
              \/ /\ Len(s) > k
                 /\ s[k + 1] = "."
                 /\ Len(s) - (k + 1) \in 1..10
                 /\ AllDigits(s, k + 2, Len(s))
    \/ \E d \in 2..(Len(s) - 1) :
           /\ s[d] = "-"
           /\ AllDigits(s, 1, d - 1)
           /\ AllDigits(s, d + 1, Len(s))

\* a slip that tests for a table never loaded instead of an empty one
duty_rates_is_none(rates) == FALSE

\* self.duty_rates.empty
duty_rates_empty(rates) == rates = <<>>

\* validator.py:307  Series.str on a column that holds numbers and no text
\* raises AttributeError (blank cells alone do not)
str_accessor_raises(rates) ==
    /\ \E k \in 1..Len(rates) : rates[k]["Item name"].t \in {"num", "float"}
    /\ \A k \in 1..Len(rates) : rates[k]["Item name"].t # "str"

\* a slip that compares the item names case-sensitively
duty_match_case_sensitive(rates, item_name) ==
    {k \in 1..Len(rates) :
        /\ rates[k]["Item name"].t = "str"
        /\ \/ item_name = <<>>
           \/ Contains(rates[k]["Item name"].s, item_name)}

\* a slip that passes over the duty rows without a code
duty_match_coded(rates, item_name) ==
    {k \in 1..Len(rates) :
        /\ rates[k]["Item name"].t = "str"
        /\ rates[k]["India HS code"].t # "nan"
        /\ \/ item_name = <<>>
           \/ Contains(StrLower(rates[k]["Item name"].s), StrLower(item_name))}

\* validator.py:306-308  rows whose 'Item name' contains the escaped item
\* name, ignoring case; cells that are not text never match (na=False)
duty_match(rates, item_name) ==
    {k \in 1..Len(rates) :
        /\ rates[k]["Item name"].t = "str"
        /\ \/ item_name = <<>>
           \/ Contains(StrLower(rates[k]["Item name"].s), StrLower(item_name))}

NO_TEXT == <<>>
DutyMessage(kind, text) == [kind |-> kind, col |-> "", a |-> text, b |-> NO_TEXT]

\* validator.py:293-326; the result is the error list and whether an
\* exception left the method
validate_duty_info(errors, rates, input_row, sheet_name, row_idx) ==
    LET item_name == StrStrip(PyStr(RowGet(input_row, "Item name", NA_CELL)))
        hs_code == RowGet(input_row, "India HS code", NA_CELL)
    IN  IF duty_rates_empty(rates)
        THEN [errors |-> errors, raised |-> FALSE]
        ELSE IF item_name = SENTINEL
        THEN [errors |-> log_error(errors, sheet_name, row_idx, item_name,
                                   DutyMessage("Missing item name", NO_TEXT)),
              raised |-> FALSE]
        ELSE IF str_accessor_raises(rates)
        THEN [errors |-> errors, raised |-> TRUE]
        ELSE IF duty_match(rates, item_name) # {}
        THEN IF hs_raises(hs_code)
             THEN [errors |-> errors, raised |-> TRUE]
             ELSE IF ~hs_pattern_matches(hs_str_of(hs_code))
             THEN [errors |-> log_error(errors, sheet_name, row_idx, hs_str_of(hs_code),
                                        DutyMessage("Invalid HS Code format", hs_str_of(hs_code))),
                   raised |-> FALSE]
             ELSE [errors |-> errors, raised |-> FALSE]
        ELSE [errors |-> log_error(errors, sheet_name, row_idx, item_name,
                                   DutyMessage("No matching duty rate found", NO_TEXT)),
              raised |-> FALSE]

\* Bounds of the duty tables and rows drawn by InitDuty
MaxHsLen == 5
HsAlphabet == {"1", "-", "."}
HsTextSamples == { <<"8","5","0","1",".","1","0">>, <<"1","2","-","3","4">>,
                   <<"A","B","C","D","E">>, <<" ","8","5","0","1"," ">>,
                   <<"1","2","3","4","5","6","7","8","9","0">>,
                   <<"1","2","3","4","5","6","7","8","9","0","1">>,
                   <<"1","2","3","4",".","1","2","3","4","5","6","7","8","9","0">>,
                   <<"1","2","3","4",".","1","2","3","4","5","6","7","8","9","0","1">> }
HsCells ==
    {StrCell(t) : t \in StringsUpTo(HsAlphabet, MaxHsLen) \cup HsTextSamples}
        \cup {NumCell(n) : n \in {0, 123, 1234, 8501, 85011000, 1234567890}}
        \cup {FloatCell(8501, <<"1">>), FloatCell(1234, <<"0">>), FloatCell(1234, <<"5">>),
              FloatCell(123, <<"4","5">>), FloatCell(0, <<"5">>)}
        \cup {NaN}
DutyRow(name, code) ==
    [c \in {"Item name", "India HS code"} |-> IF c = "Item name" THEN name ELSE code]
BEARING_ROW == DutyRow(StrCell(<<"B","E","A","R","I","N","G"," ","A","S","S","E","M","B","L","Y">>),
                       NumCell(8501))
GASKET_ROW == DutyRow(StrCell(GASKET), StrCell(<<"1","2","-","3","4">>))
BANANA_ROW == DutyRow(StrCell(<<"B","a","n","a","n","a">>), NaN)
BLANK_NAME_ROW == DutyRow(NaN, NumCell(8501))
NUMBER_NAME_ROW == DutyRow(NumCell(7), NumCell(8501))
DutyTables == { <<>>, <<BEARING_ROW>>, <<GASKET_ROW, BEARING_ROW>>, <<BANANA_ROW>>,
                <<BLANK_NAME_ROW>>, <<NUMBER_NAME_ROW, BLANK_NAME_ROW>> }
ItemNameCells == { StrCell(<<"b","e","a","r","i","n","g">>), StrCell(GASKET),
                   StrCell(<<"P","u","m","p">>), NaN }
DutyInputRows ==
    {[c \in {"P/N", "Item name", "India HS code"} |->
         CASE c = "P/N" -> P100
           [] c = "Item name" -> name
           [] c = "India HS code" -> code] : name \in ItemNameCells, code \in HsCells}
      \cup {[c \in {"P/N", "India HS code"} |-> IF c = "P/N" THEN P100 ELSE code] :
               code \in HsCells}
      \cup {[c \in {"P/N", "Item name"} |-> IF c = "P/N" THEN P100 ELSE name] :
               name \in ItemNameCells}

InitDuty ==
    /\ IdlePn
    /\ IdleHdr
    /\ IdleLoc
    /\ IdleCol
    /\ IdleMatch
    /\ IdleRun
    /\ IdleExt
    /\ IdleMain
    /\ IdleNorm
    /\ IdleConv
    /\ duty_rates \in DutyTables
    /\ duty_input_row \in DutyInputRows
    /\ duty_pc = "start"
    /\ duty_errors = <<>>
    /\ duty_raised = FALSE

\* validator.py:271, 293-326  validate_duty_info on one resolved input row
ValidateDutyInfo ==
    /\ duty_pc = "start"
    /\ LET result == validate_duty_info(duty_errors, duty_rates, duty_input_row, COL_SHEET, 0)
       IN  /\ duty_errors' = result.errors
           /\ duty_raised' = result.raised
    /\ duty_pc' = "done"
    /\ UNCHANGED <<duty_rates, duty_input_row, notDuty>>

NextDuty == ValidateDutyInfo

SpecDuty == InitDuty /\ [][NextDuty]_vars

----------------------------------------------------------------------------
(* Claims on the cross-reference validator                                 *)

DutyItemName == StrStrip(PyStr(RowGet(duty_input_row, "Item name", NA_CELL)))
DutyHsCode == RowGet(duty_input_row, "India HS code", NA_CELL)

\* the shape check is reached: the duty table has a row for the item name
ShapeChecked ==
    /\ duty_pc = "done"
    /\ DutyItemName # SENTINEL
    /\ duty_match(duty_rates, DutyItemName) # {}

\* canonical decimal string of a code: integral numbers without fractional
\* part, fractional numbers with their significant decimals, text stripped
CanonicalCode(cell) ==
    CASE cell.t = "num" -> IntStr(cell.n)
      [] cell.t = "float" ->
             IF \A k \in 1..Len(cell.s) : cell.s[k] = "0" THEN IntStr(cell.n)
             ELSE IntStr(cell.n) \o <<".">> \o cell.s
      [] cell.t = "str" -> StrStrip(cell.s)
      [] cell.t = "nan" -> <<"n","a","n">>

Positions(s, c) == {k \in 1..Len(s) : s[k] = c}
IsDigitString(s) == s # <<>> /\ \A k \in 1..Len(s) : IsDigit(s[k])

\* 4 to 10 digits with an optional decimal suffix, or two numbers joined by a hyphen
IsWellFormedCode(s) ==
    LET dots == Positions(s, ".")
        hyphens == Positions(s, "-")
    IN  \/ /\ dots = {} /\ hyphens = {}
           /\ IsDigitString(s) /\ Len(s) \in 4..10
        \/ /\ hyphens = {} /\ Cardinality(dots) = 1
           /\ LET p == CHOOSE k \in dots : TRUE
              IN  /\ IsDigitString(SubSeq(s, 1, p - 1)) /\ (p - 1) \in 4..10
                  /\ IsDigitString(SubSeq(s, p + 1, Len(s))) /\ (Len(s) - p) \in 1..10
        \/ /\ dots = {} /\ Cardinality(hyphens) = 1
           /\ LET p == CHOOSE k \in hyphens : TRUE
              IN  /\ IsDigitString(SubSeq(s, 1, p - 1))
                  /\ IsDigitString(SubSeq(s, p + 1, Len(s)))

DutyHsIs(cell) == "India HS code" \in DOMAIN duty_input_row /\ DutyHsCode = cell

\* C7: once a duty row is found for the item name, the code of the record,
\* numeric codes taken in their canonical decimal form, is accepted iff it is
\* 4 to 10 digits with an optional decimal suffix or a hyphenated numeric
\* range; 8501.10 and "12-34" are accepted, "ABCDE" gives exactly one
\* InvalidAuxCodeFormat error.
C7_HsCodeShape ==
    ShapeChecked =>
        /\ (duty_errors = <<>> /\ ~duty_raised) <=> IsWellFormedCode(CanonicalCode(DutyHsCode))
        /\ Len(duty_errors) <= 1
        /\ \A k \in 1..Len(duty_errors) :
               /\ duty_errors[k].Error.kind = "Invalid HS Code format"
               /\ duty_errors[k].Error.a = CanonicalCode(DutyHsCode)
        /\ (DutyHsIs(FloatCell(8501, <<"1">>)) \/ DutyHsIs(StrCell(<<"8","5","0","1",".","1","0">>))
              \/ DutyHsIs(StrCell(<<"1","2","-","3","4">>))) => duty_errors = <<>>
        /\ DutyHsIs(StrCell(<<"A","B","C","D","E">>)) => Len(duty_errors) = 1

C7_Witness ==
    /\ ShapeChecked
    /\ DutyHsIs(StrCell(<<"A","B","C","D","E">>))
    /\ Len(duty_errors) = 1
    /\ duty_errors[1].Error.kind = "Invalid HS Code format"

DutyKinds(kind) == {k \in 1..Len(duty_errors) : duty_errors[k].Error.kind = kind}

\* the record has no item name: the column is absent or the cell is blank
ItemNameMissing ==
    \/ "Item name" \notin DOMAIN duty_input_row
    \/ duty_input_row["Item name"] = NaN

\* C23: a record whose item name is missing (absent column or blank cell)
\* gets exactly one "Missing item name" error and neither the duty lookup nor
\* the code-shape check (duty table not empty, see C27).
C23_MissingItemName ==
    (duty_pc = "done" /\ duty_rates # <<>> /\ ItemNameMissing) =>
        /\ Len(duty_errors) = 1
        /\ duty_errors[1].Error.kind = "Missing item name"
        /\ ~duty_raised

\* the text looked up for a record that has an item name
HasItemName == ~ItemNameMissing /\ DutyItemName # SENTINEL

\* rows of the duty table whose item name contains the text, whatever the case
RowsNaming(text) ==
    {k \in 1..Len(duty_rates) :
        /\ duty_rates[k]["Item name"].t = "str"
        /\ \E i \in 0..(Len(duty_rates[k]["Item name"].s) - Len(text)) :
               \A j \in 1..Len(text) :
                   LowerChar(duty_rates[k]["Item name"].s[i + j]) = LowerChar(text[j])}

\* the item names of the duty table hold a number and no text
NumbersForNames ==
    /\ \E k \in 1..Len(duty_rates) : duty_rates[k]["Item name"].t \in {"num", "float"}
    /\ \A k \in 1..Len(duty_rates) : duty_rates[k]["Item name"].t # "str"

AuxErrorsAsClaimed ==
    /\ (DutyKinds("No matching duty rate found") # {}) <=> (RowsNaming(DutyItemName) = {})
    /\ (DutyKinds("Invalid HS Code format") # {}) => (RowsNaming(DutyItemName) # {})
    /\ Len(duty_errors) <= 1

CodeVariants == {NaN, NumCell(8501), StrCell(<<"A","B","C","D","E">>)}
\* the duty tables with the item names of this one, whatever their codes
SameNames(rates) ==
    {t \in [1..Len(rates) -> {DutyRow(n, c) : n \in {rates[k]["Item name"] : k \in 1..Len(rates)},
                                               c \in CodeVariants}] :
        \A k \in 1..Len(rates) : t[k]["Item name"] = rates[k]["Item name"]}

\* C25: two runs whose duty tables differ only in the codes of their rows
\* give every record the same errors: the code of the matched duty row has no
\* influence.
C25_DutyCodeIgnored ==
    (duty_pc = "done") =>
        \A t \in SameNames(duty_rates) :
            validate_duty_info(<<>>, t, duty_input_row, COL_SHEET, 0)
                = [errors |-> duty_errors, raised |-> duty_raised]

C25_Witness ==
    /\ duty_pc = "done"
    /\ duty_rates = <<GASKET_ROW, BEARING_ROW>>
    /\ DutyItemName = <<"b","e","a","r","i","n","g">>
    /\ DutyHsIs(StrCell(<<"A","B","C","D","E">>))
    /\ Len(duty_errors) = 1
    /\ Cardinality(SameNames(duty_rates)) > 1

\* an error list as the field validator leaves it
PRIOR_ERRORS ==
    <<[Sheet |-> COL_SHEET, Row |-> 1, PN |-> <<"P","1","0","0">>,
       Error |-> [kind |-> "Value mismatch in column", col |-> COMPARED,
                  a |-> <<"1">>, b |-> <<"2">>]]>>

\* C27: with an empty duty table validate_duty_info appends nothing, whatever
\* the record: no "Missing item name", "No matching duty rate found" or
\* "Invalid HS Code format" error, the error list left as it was.
C27_EmptyDutyTable ==
    (duty_pc = "done" /\ duty_rates = <<>>) =>
        /\ duty_errors = <<>>
        /\ ~duty_raised
        /\ validate_duty_info(PRIOR_ERRORS, duty_rates, duty_input_row, COL_SHEET, 0).errors
               = PRIOR_ERRORS

C27_Witness ==
    /\ duty_pc = "done"
    /\ duty_rates = <<>>
    /\ ItemNameMissing
    /\ DutyHsIs(StrCell(<<"A","B","C","D","E">>))
    /\ duty_errors = <<>>

----------------------------------------------------------------------------
(* Sheet matcher: ExcelValidator.load_excel_files / validate_all (pairing) *)

IsAlnumChar(c) == IsUpperAZ(c) \/ IsLowerAZ(c) \/ IsDigit(c)

\* validator.py:38-40  re.sub(r'[^a-zA-Z0-9]', '', name).lower()
normalize_sheet_name(name) == StrLower(SelectSeq(name, IsAlnumChar))

\* dict[key] = value: a key already present keeps its position
DictPut(d, key, value) ==
    IF \E i \in 1..Len(d) : d[i].name = key
    THEN [i \in 1..Len(d) |-> IF d[i].name = key THEN [d[i] EXCEPT !.df = value] ELSE d[i]]
    ELSE Append(d, [name |-> key, df |-> value])

\* validator.py:229-230  input_data, keyed by normalized name; the frame of a
\* sheet is identified by the original name of the sheet it was read from
RECURSIVE input_data_of(_, _)
input_data_of(d, names) ==
    IF names = <<>> THEN d
    ELSE input_data_of(DictPut(d, normalize_sheet_name(Head(names)), Head(names)), Tail(names))

\* validator.py:398-403
RECURSIVE get_original_sheet_name(_, _)
get_original_sheet_name(normalized_name, original_sheets) ==
    IF original_sheets = <<>> THEN normalized_name
    ELSE IF normalize_sheet_name(Head(original_sheets)) = normalized_name
         THEN Head(original_sheets)
         ELSE get_original_sheet_name(normalized_name, Tail(original_sheets))

\* r > q for two fractions
RatioAbove(r, q) == r[1] * q[2] > q[1] * r[2]

ZERO_SCORE == <<0, 1>>
NO_MATCH == 0

\* a slip that lets a later sheet with an equal score replace the best one
is_better_or_equal(score, best_score) ==
    ~RatioAbove(best_score, score) /\ RatioGreater(score, 6, 10)

\* validator.py:360  score > best_score and score > 0.6
is_better(score, best_score) ==
    RatioAbove(score, best_score) /\ RatioGreater(score, 6, 10)

\* validator.py:353-362  the position of best_match among the shipping
\* sheets, NO_MATCH for None
RECURSIVE best_match_scan(_, _, _, _, _)
best_match_scan(input_name, names, k, best_match, best_score) ==
    IF k > Len(names) THEN best_match
    ELSE LET next[score \in {ratio(normalize_sheet_name(input_name),
                                   normalize_sheet_name(names[k]))}] ==
                 IF is_better(score, best_score)
                 THEN best_match_scan(input_name, names, k + 1, k, score)
                 ELSE best_match_scan(input_name, names, k + 1, best_match, best_score)
         IN  next[ratio(normalize_sheet_name(input_name), normalize_sheet_name(names[k]))]

best_match_of(input_name, names) == best_match_scan(input_name, names, 1, NO_MATCH, ZERO_SCORE)

\* Bounds of the workbooks drawn by InitMatch
MaxNameLen == 2
MaxRefSheets == 2
INVOICE_A == <<"I","n","v","o","i","c","e","-","A">>
INVOICE_A_REF == <<"I","N","V","O","I","C","E","_","A"," ">>
INVOICE_B == <<"I","n","v","o","i","c","e","-","B">>
ABCDE == <<"a","b","c","d","e">>
ABCXY == <<"a","b","c","x","y">>
NameSamples == {INVOICE_A, INVOICE_A_REF, INVOICE_B, ABCDE, ABCXY}
InputNames == {INVOICE_A, ABCDE, <<"a">>, <<"a","-">>, <<"a","b">>, <<"-">>}
RefNames ==
    NameSamples \cup {<<"-">>}
        \cup {n \in StringsUpTo({"a", "-"}, MaxNameLen) : n # <<>> /\ n[1] = "a"}
\* sheet names of one workbook are distinct whatever the letter case
DistinctNames(names) ==
    \A i, j \in 1..Len(names) : i # j => StrLower(names[i]) # StrLower(names[j])
InputWorkbooks ==
    {<<n>> : n \in InputNames}
        \cup {<<<<"a">>, <<"a", "-">>>>, <<<<"a", "-">>, <<"a">>>>, <<INVOICE_A, ABCDE>>,
               <<<<"a", "b">>, <<"a">>>>}
RefWorkbooks == {w \in UNION {[1..k -> RefNames] : k \in 0..MaxRefSheets} : DistinctNames(w)}

InitMatch ==
    /\ IdlePn
    /\ IdleHdr
    /\ IdleLoc
    /\ IdleCol
    /\ IdleDuty
    /\ IdleRun
    /\ IdleExt
    /\ IdleMain
    /\ IdleNorm
    /\ IdleConv
    /\ input_sheets \in InputWorkbooks
    /\ input_data = input_data_of(<<>>, input_sheets)
    /\ shipping_names \in RefWorkbooks
    /\ match_i = 1
    /\ matched_pairs = <<>>

\* validator.py:348-365  one iteration of the pairing loop
MatchSheet ==
    /\ match_i \in 1..Len(input_data)
    /\ LET input_name == input_data[match_i].name
           original_name == get_original_sheet_name(input_name, input_sheets)
           best_match == best_match_of(input_name, shipping_names)
       IN  matched_pairs' =
               IF best_match # NO_MATCH
               THEN Append(matched_pairs, [input_df |-> input_data[match_i].df,
                                           original_name |-> original_name,
                                           shipping_name |-> shipping_names[best_match]])
               ELSE matched_pairs
    /\ match_i' = match_i + 1
    /\ UNCHANGED <<input_sheets, input_data, shipping_names, notMatch>>

NextMatch == MatchSheet

SpecMatch == InitMatch /\ [][NextMatch]_vars

----------------------------------------------------------------------------
(* Claims on the sheet matcher                                             *)

\* key is the text without its non-alphanumeric characters, in lower case
IsLowerAlnumProjection(s, key) ==
    LET pos == AlnumPositions(s)
        rank(i) == Cardinality({j \in pos : j <= i})
    IN  /\ Len(key) = Cardinality(pos)
        /\ \A i \in pos : key[rank(i)] = LowerChar(s[i])

SheetKey(name) == CHOOSE key \in {normalize_sheet_name(name)} : IsLowerAlnumProjection(name, key)
SheetScore(input_name, ref_name) == ratio(SheetKey(input_name), SheetKey(ref_name))

\* the reference sheets whose score no other reference sheet exceeds
TopScoring(input_name) ==
    {k \in 1..Len(shipping_names) :
        \A m \in 1..Len(shipping_names) :
            ~RatioAbove(SheetScore(input_name, shipping_names[m]),
                        SheetScore(input_name, shipping_names[k]))}

PairsOf(input_name) ==
    {p \in 1..Len(matched_pairs) : matched_pairs[p].original_name = input_name}

\* input sheets the pairing loop has gone through
MatchedSoFar == {input_data[e].name : e \in 1..(match_i - 1)}

\* C8: sheet names are compared by their keys (non-alphanumeric characters
\* removed, lower case), so "Invoice-A" and "INVOICE_A " have one key and
\* are matched; every input sheet gets at most one pair, and it gets one
\* exactly when the best similarity over the reference sheets exceeds 0.6,
\* the pair then naming the first reference sheet with that best score.
C8_BestReferenceSheet ==
    /\ \A n \in Range(input_sheets) :
           /\ IsLowerAlnumProjection(n, normalize_sheet_name(n))
           /\ Cardinality(PairsOf(n)) <= 1
    /\ SheetKey(INVOICE_A) = SheetKey(INVOICE_A_REF)
    /\ \A e \in 1..(match_i - 1) :
           LET n == get_original_sheet_name(input_data[e].name, input_sheets)
               top == TopScoring(n)
               first == CHOOSE k \in top : \A m \in top : k <= m
               qualifies == top # {} /\ RatioGreater(SheetScore(n, shipping_names[first]), 6, 10)
           IN  /\ SheetKey(n) = input_data[e].name
               /\ (PairsOf(n) # {}) <=> qualifies
               /\ \A p \in PairsOf(n) : matched_pairs[p].shipping_name = shipping_names[first]
    /\ (match_i > Len(input_data) /\ INVOICE_A \in Range(input_sheets)
            /\ INVOICE_A_REF \in Range(shipping_names)) =>
           \E p \in PairsOf(INVOICE_A) :
               SheetKey(matched_pairs[p].shipping_name) = SheetKey(INVOICE_A)

\* "Invoice-A" is paired with "INVOICE_A " although a sheet with a lower
\* score comes first, and two sheets with the best score are offered elsewhere
C8_Witness ==
    /\ match_i > Len(input_data)
    /\ shipping_names = <<INVOICE_B, INVOICE_A_REF>>
    /\ \E p \in PairsOf(INVOICE_A) : matched_pairs[p].shipping_name = INVOICE_A_REF


\* the input sheet has a reference sheet scoring above 0.6
HasReferenceMatch(n) ==
    \E k \in 1..Len(shipping_names) : RatioGreater(SheetScore(n, shipping_names[k]), 6, 10)

\* C26: every input sheet with a reference match is validated with its own
\* rows and under its own original name, also when another input sheet has
\* the same normalized name; no sheet is lost or mislabeled.
C26_EverySheetUnderItsOwnName ==
    (match_i > Len(input_data)) =>
        /\ \A p \in 1..Len(matched_pairs) :
               matched_pairs[p].original_name = matched_pairs[p].input_df
        /\ \A e \in 1..Len(input_sheets) :
               HasReferenceMatch(input_sheets[e]) =>
                   \E p \in 1..Len(matched_pairs) :
                       /\ matched_pairs[p].input_df = input_sheets[e]
                       /\ matched_pairs[p].original_name = input_sheets[e]

----------------------------------------------------------------------------
(* Record matcher: ExcelValidator.validate_all (validation loop) and       *)
(* validate_sheet.  A frame is a sequence of rows with the same columns.   *)

\* validator.py:240  shipping_df['P/N'] raises KeyError without the column
has_pn_column(shipping_df) == \A k \in 1..Len(shipping_df) : "P/N" \in DOMAIN shipping_df[k]

\* validator.py:240  shipping_df['P/N'].apply(self.clean_pn_value)
clean_pn_column(shipping_df) ==
    [k \in 1..Len(shipping_df) |-> clean_pn_value(shipping_df[k]["P/N"])]

\* DataFrame.to_dict('index') raises ValueError unless the index is unique
index_is_unique(keys) == \A i, j \in 1..Len(keys) : i # j => keys[i] # keys[j]

\* validator.py:240-242 raises
build_raises(shipping_df) ==
    \/ ~has_pn_column(shipping_df)
    \/ ~index_is_unique(clean_pn_column(shipping_df))

\* validator.py:241-242  shipping_index of a frame with unique keys
shipping_index_of(shipping_df) ==
    LET keys == clean_pn_column(shipping_df)
    IN  [key \in Range(keys) |-> shipping_df[CHOOSE k \in 1..Len(shipping_df) : keys[k] = key]]

\* a lookup that falls back to some record of the index
index_get_or_any(index, key) ==
    IF key \in DOMAIN index THEN <<index[key]>> ELSE <<index[CHOOSE k \in DOMAIN index : TRUE]>>

\* shipping_index.get(key): <<>> for None
index_get(index, key) == IF key \in DOMAIN index THEN <<index[key]>> ELSE <<>>

\* a retry that keeps only the digits of the key
alt_pn_keep_digits(pn) == clean_pn_value(StrCell(SelectSeq(pn, IsDigit)))

\* validator.py:257  clean_pn_value(input_pn.replace('.', ''))
alt_pn_of(pn) == clean_pn_value(StrCell(RemoveDots(pn)))

COLUMNS == <<"Item Nos", "Model Nos", "Description", "Quantity PCS",
             "Unit Price USD", "Amount USD">>

Message(kind) == DutyMessage(kind, NO_TEXT)

\* validator.py:244-271  one iteration of the row loop: the error list, the
\* locals and whether an exception left validate_sheet
validate_row(errors, index, rates, row_, sheet_name, idx) ==
    LET pn == clean_pn_value(RowGet(row_, "P/N", NA_CELL))
        direct == index_get(index, pn)
        alt == alt_pn_of(pn)
        found == IF direct # <<>> THEN direct ELSE index_get(index, alt)
    IN  IF pn = SENTINEL
        THEN [errors |-> log_error(errors, sheet_name, idx, pn,
                                   Message("Missing P/N in input row")),
              input_pn |-> pn, alt_pn |-> NotRun, shipping_row |-> <<>>, raised |-> FALSE]
        ELSE IF found = <<>>
        THEN [errors |-> log_error(errors, sheet_name, idx, pn,
                                   Message("No matching shipping entry for P/N")),
              input_pn |-> pn, alt_pn |-> alt, shipping_row |-> <<>>, raised |-> FALSE]
        ELSE LET checked == validate_columns(errors, row_, found[1], COLUMNS, sheet_name, idx)
                 duty == validate_duty_info(checked, rates, row_, sheet_name, idx)
             IN  [errors |-> duty.errors, input_pn |-> pn,
                  alt_pn |-> IF direct # <<>> THEN NotRun ELSE alt,
                  shipping_row |-> found, raised |-> duty.raised]

\* Bounds of the frames drawn by Init
MaxInputRows == 2
MaxRefRows == 2

InRow(pn, desc, item, hs) ==
    [c \in {"P/N", "Description", "Item name", "India HS code"} |->
        CASE c = "P/N" -> pn
          [] c = "Description" -> desc
          [] c = "Item name" -> item
          [] c = "India HS code" -> hs]
ShipRow(pn, desc) == [c \in {"P/N", "Description"} |-> IF c = "P/N" THEN pn ELSE desc]

DESC_BOLT == StrCell(<<"B","o","l","t">>)
DESC_NUT == StrCell(<<"N","u","t">>)
ITEM_BEARING == StrCell(<<"b","e","a","r","i","n","g">>)
ITEM_PUMP == StrCell(<<"P","u","m","p">>)
P_DASH_100 == StrCell(<<"P","-","1","0","0">>)
P_DOT_100 == StrCell(<<"p",".","1","0","0">>)
IN_RESOLVED == InRow(P_DASH_100, DESC_BOLT, ITEM_BEARING, NumCell(8501))
IN_DOTTED == InRow(P_DOT_100, DESC_NUT, ITEM_PUMP, NumCell(8501))
IN_UNKNOWN == InRow(StrCell(<<"Q","-","7">>), DESC_BOLT, ITEM_BEARING, NumCell(8501))
IN_NO_KEY == InRow(StrCell(<<"-">>), DESC_BOLT, ITEM_BEARING, NumCell(8501))
IN_BLANK_PN == InRow(NaN, DESC_BOLT, ITEM_BEARING, NumCell(8501))
IN_BLANK_HS == InRow(P100, DESC_BOLT, ITEM_BEARING, NaN)
IN_BAD_HS == InRow(P100, DESC_BOLT, ITEM_BEARING, StrCell(<<"A","B","C","D","E">>))
IN_NO_PN_COLUMN == [c \in {"Description"} |-> DESC_BOLT]
InputRowSamples == {IN_RESOLVED, IN_DOTTED, IN_UNKNOWN, IN_BLANK_PN,
                    IN_BLANK_HS, IN_BAD_HS, IN_NO_PN_COLUMN}

REF_P100 == ShipRow(P100, DESC_BOLT)
REF_P_DASH_100 == ShipRow(P_DASH_100, DESC_NUT)
REF_X9 == ShipRow(StrCell(<<"X","9">>), DESC_NUT)
REF_BLANK_PN == ShipRow(NaN, DESC_BOLT)
REF_NO_PN_COLUMN == [c \in {"Description"} |-> DESC_BOLT]
RefRowSamples == {REF_P100, REF_P_DASH_100, REF_BLANK_PN, REF_NO_PN_COLUMN}

\* the rows of a frame have the same columns
SameColumns(frame) == \A i, j \in 1..Len(frame) : DOMAIN frame[i] = DOMAIN frame[j]
InputFrames ==
    {f \in UNION {[1..k -> InputRowSamples] : k \in 1..MaxInputRows} : SameColumns(f)}
        \cup {<<IN_NO_KEY>>}
RefFrames ==
    {f \in UNION {[1..k -> RefRowSamples] : k \in 1..MaxRefRows} : SameColumns(f)}
        \cup {<<REF_X9>>}

SHEET_1 == <<"S","1">>
SHEET_2 == <<"S","2">>
Pair(input_df, sheet_name, shipping_df) ==
    [input_df |-> input_df, sheet_name |-> sheet_name, shipping_df |-> shipping_df]
FirstPairs == {Pair(i, SHEET_1, r) : i \in InputFrames, r \in RefFrames}
SecondPairs == { Pair(<<IN_BAD_HS, IN_UNKNOWN>>, SHEET_2, <<REF_X9, REF_P100>>) }
PairLists == {<<p>> : p \in FirstPairs} \cup {<<p, q>> : p \in FirstPairs, q \in SecondPairs}

Init ==
    /\ IdlePn
    /\ IdleHdr
    /\ IdleLoc
    /\ IdleCol
    /\ IdleDuty
    /\ IdleMatch
    /\ IdleExt
    /\ IdleMain
    /\ IdleNorm
    /\ IdleConv
    /\ pairs \in PairLists
    /\ run_duty_rates \in {<<>>, <<GASKET_ROW, BEARING_ROW>>}
    /\ validation_errors = <<>>
    /\ failed_sheets = <<>>
    /\ pair_i = 1
    /\ run_pc = "index"
    /\ shipping_index = <<>>
    /\ row_i = 0
    /\ cur_input_row = <<>>
    /\ cur_input_pn = NotRun
    /\ cur_alt_pn = NotRun
    /\ cur_shipping_row = <<>>
    /\ report = <<>>

\* validator.py:367-374  the loop goes on to the next matched pair
NextPair ==
    /\ pair_i' = pair_i + 1
    /\ run_pc' = IF pair_i + 1 > Len(pairs) THEN "done" ELSE "index"
    /\ row_i' = 0

\* a slip that logs the failure and leaves the loop
SheetFailedStops ==
    /\ failed_sheets' = Append(failed_sheets, pairs[pair_i].sheet_name)
    /\ pair_i' = Len(pairs) + 1
    /\ run_pc' = "done"
    /\ row_i' = 0

\* validator.py:373-374  except Exception: logger.error, the loop continues
SheetFailed ==
    /\ failed_sheets' = Append(failed_sheets, pairs[pair_i].sheet_name)
    /\ NextPair

\* validator.py:369-372, 238-242  validate_sheet is entered and builds the index
BuildIndex ==
    /\ run_pc = "index"
    /\ pair_i \in 1..Len(pairs)
    /\ IF build_raises(pairs[pair_i].shipping_df)
       THEN /\ SheetFailed
            /\ UNCHANGED shipping_index
       ELSE /\ shipping_index' = shipping_index_of(pairs[pair_i].shipping_df)
            /\ IF pairs[pair_i].input_df = <<>>
               THEN NextPair
               ELSE /\ run_pc' = "rows"
                    /\ row_i' = 1
                    /\ UNCHANGED pair_i
            /\ UNCHANGED failed_sheets
    /\ cur_input_row' = <<>>
    /\ cur_input_pn' = NotRun
    /\ cur_alt_pn' = NotRun
    /\ cur_shipping_row' = <<>>
    /\ UNCHANGED <<pairs, run_duty_rates, validation_errors, report, notRun>>

\* validator.py:244-271  one input row of the sheet
ValidateRow ==
    /\ run_pc = "rows"
    /\ row_i \in 1..Len(pairs[pair_i].input_df)
    /\ \E result \in {validate_row(validation_errors, shipping_index, run_duty_rates,
                                     pairs[pair_i].input_df[row_i],
                                     pairs[pair_i].sheet_name, row_i - 1)} :
           /\ validation_errors' = result.errors
           /\ cur_input_pn' = result.input_pn
           /\ cur_alt_pn' = result.alt_pn
           /\ cur_shipping_row' = result.shipping_row
           /\ IF result.raised
              THEN SheetFailed
              ELSE /\ IF row_i = Len(pairs[pair_i].input_df)
                      THEN NextPair
                      ELSE /\ row_i' = row_i + 1
                           /\ UNCHANGED <<pair_i, run_pc>>
                   /\ UNCHANGED failed_sheets
    /\ cur_input_row' = <<pairs[pair_i].input_df[row_i]>>
    /\ UNCHANGED <<pairs, run_duty_rates, shipping_index, report, notRun>>

\* validator.py:376-386  one report row per entry of validation_errors
error_df(errors) == [k \in 1..Len(errors) |-> errors[k]]

\* validator.py:477-478  validate_all has returned: generate_report
GenerateReport ==
    /\ run_pc = "done"
    /\ report' = error_df(validation_errors)
    /\ run_pc' = "reported"
    /\ UNCHANGED <<pairs, run_duty_rates, validation_errors, failed_sheets, pair_i,
                   shipping_index, row_i, cur_input_row, cur_input_pn, cur_alt_pn,
                   cur_shipping_row, notRun>>

Next == BuildIndex \/ ValidateRow \/ GenerateReport

Spec == Init /\ [][Next]_vars

----------------------------------------------------------------------------
(* Claims on the record matcher                                            *)

RowProcessed == cur_input_row # <<>>
CurPnCell == RowGet(cur_input_row[1], "P/N", NA_CELL)
P100_KEY == <<"P","1","0","0">>

\* the identifier with its '.' characters removed, then normalized
SecondaryKeyOf(cell) == clean_pn_value(StrCell(RemoveDots(PyStr(cell))))

\* the lookup is retried exactly when the direct lookup misses, with the
\* secondary key, and a record whose secondary key is in the index is resolved
RetryOnMiss ==
    RowProcessed /\ cur_input_pn # SENTINEL =>
        /\ (cur_alt_pn # NotRun) <=> (cur_input_pn \notin DOMAIN shipping_index)
        /\ (cur_alt_pn # NotRun) => cur_alt_pn = SecondaryKeyOf(CurPnCell)
        /\ SecondaryKeyOf(CurPnCell) \in DOMAIN shipping_index =>
               cur_shipping_row = <<shipping_index[SecondaryKeyOf(CurPnCell)]>>

\* the input identifier is "P-100" and the reference identifier "P100" is indexed
DashedAgainstPlain ==
    /\ RowProcessed
    /\ CurPnCell = P_DASH_100
    /\ P100_KEY \in DOMAIN shipping_index
    /\ shipping_index[P100_KEY]["P/N"] = P100

\* C9 (as stated): on a direct miss the lookup is retried with the secondary
\* key and resolves whenever the index holds it; input "P-100" against
\* reference "P100" is resolved by this secondary pass.
C9_ResolvedBySecondaryPass ==
    /\ RetryOnMiss
    /\ DashedAgainstPlain => (cur_alt_pn # NotRun /\ cur_shipping_row # <<>>)

\* C9: on a direct miss the lookup is retried with the secondary key, which
\* always equals the direct key, so the retry never resolves a record; input
\* "P-100" against reference "P100" is resolved by the direct lookup.
C9_SecondaryLookup ==
    /\ RetryOnMiss
    /\ (RowProcessed /\ cur_alt_pn # NotRun) =>
           (cur_alt_pn = cur_input_pn /\ cur_shipping_row = <<>>)
    /\ DashedAgainstPlain =>
           (cur_alt_pn = NotRun /\ cur_shipping_row = <<shipping_index[P100_KEY]>>)

\* a dotted identifier misses, is retried with the same key and stays unresolved
C9_Witness ==
    /\ RowProcessed
    /\ CurPnCell = P_DOT_100
    /\ cur_input_pn = P100_KEY
    /\ cur_alt_pn = P100_KEY
    /\ cur_shipping_row = <<>>

\* sheets whose validation has ended
EndedPairs == {i \in 1..Len(pairs) : i < pair_i}
HasDuplicateKeys(shipping_df) ==
    /\ has_pn_column(shipping_df)
    /\ \E i, j \in 1..Len(shipping_df) :
           i < j /\ clean_pn_value(shipping_df[i]["P/N"]) = clean_pn_value(shipping_df[j]["P/N"])
LastWithKey(shipping_df, key) ==
    shipping_df[CHOOSE k \in 1..Len(shipping_df) :
                    /\ clean_pn_value(shipping_df[k]["P/N"]) = key
                    /\ \A m \in (k + 1)..Len(shipping_df) :
                           clean_pn_value(shipping_df[m]["P/N"]) # key]
NoBlankHsCode(input_df) ==
    \A k \in 1..Len(input_df) : RowGet(input_df[k], "India HS code", NA_CELL) # NaN

\* C10: when reference records share a normalized identifier the index is
\* still built, maps the key to the last such record, and the input rows of
\* the sheet are validated: the validation of the sheet does not fail.
C10_LastWriteWins ==
    /\ \A i \in EndedPairs :
           (HasDuplicateKeys(pairs[i].shipping_df) /\ NoBlankHsCode(pairs[i].input_df)) =>
               pairs[i].sheet_name \notin Range(failed_sheets)
    /\ (run_pc = "rows" /\ has_pn_column(pairs[pair_i].shipping_df)) =>
           \A key \in DOMAIN shipping_index :
               shipping_index[key] = LastWithKey(pairs[pair_i].shipping_df, key)

\* the identifier of the latest input row is blank, missing, or has no
\* letter and no digit
CurIdentifierMissing ==
    \/ "P/N" \notin DOMAIN cur_input_row[1]
    \/ cur_input_row[1]["P/N"].t = "nan"
    \/ /\ cur_input_row[1]["P/N"].t = "str"
       /\ AlnumPositions(cur_input_row[1]["P/N"].s) = {}

LastError == validation_errors[Len(validation_errors)]

\* C11: an input row whose identifier is blank, missing or without any
\* alphanumeric character has key "N/A", yields one "Missing P/N in input
\* row" error and is not looked up.
C11_MissingIdentifier ==
    (RowProcessed /\ CurIdentifierMissing) =>
        /\ cur_input_pn = SENTINEL
        /\ cur_alt_pn = NotRun
        /\ cur_shipping_row = <<>>
        /\ validation_errors # <<>>
        /\ LastError.Error.kind = "Missing P/N in input row"
        /\ LastError.PN = SENTINEL

StepRow == pairs[pair_i].input_df[row_i]
StepKey == clean_pn_value(RowGet(StepRow, "P/N", NA_CELL))
StepUnmatched ==
    /\ StepKey # SENTINEL
    /\ StepKey \notin DOMAIN shipping_index
    /\ SecondaryKeyOf(RowGet(StepRow, "P/N", NA_CELL)) \notin DOMAIN shipping_index

FieldOrDutyKinds ==
    {"Value mismatch in column", "Text similarity low in column", "Missing item name",
     "Invalid HS Code format", "No matching duty rate found"}

\* C12: an input row with a non-sentinel key found by neither lookup adds
\* exactly one "No matching shipping entry for P/N" error and nothing else;
\* field and duty errors are added only by rows that were resolved.
C12_UnmatchedIsSkipped ==
    [][run_pc = "rows" =>
          /\ StepUnmatched =>
                 /\ validation_errors' =
                        Append(validation_errors,
                               [Sheet |-> pairs[pair_i].sheet_name, Row |-> row_i,
                                PN |-> StepKey,
                                Error |-> Message("No matching shipping entry for P/N")])
                 /\ cur_shipping_row' = <<>>
                 /\ failed_sheets' = failed_sheets
          /\ \A k \in (Len(validation_errors) + 1)..Len(validation_errors') :
                 validation_errors'[k].Error.kind \in FieldOrDutyKinds =>
                     /\ cur_shipping_row' # <<>>
                     /\ ~StepUnmatched]_vars

C12_Witness ==
    /\ RowProcessed
    /\ cur_input_pn \notin {SENTINEL, NotRun}
    /\ cur_input_pn \notin DOMAIN shipping_index
    /\ cur_shipping_row = <<>>
    /\ validation_errors # <<>>
    /\ LastError.Error.kind = "No matching shipping entry for P/N"

\* C13: validation_errors only grows at its end; what a row adds does not
\* depend on the entries already there, so equal errors of different rows
\* are all kept; the report has one row per entry, in the same order.
C13_AppendOnly ==
    [][/\ Len(validation_errors') >= Len(validation_errors)
       /\ SubSeq(validation_errors', 1, Len(validation_errors)) = validation_errors
       /\ run_pc = "rows" =>
              validation_errors' =
                  validation_errors \o
                      validate_row(<<>>, shipping_index, run_duty_rates, StepRow,
                                   pairs[pair_i].sheet_name, row_i - 1).errors
       /\ run_pc' = "reported" =>
              /\ Len(report') = Len(validation_errors')
              /\ \A k \in 1..Len(report') : report'[k] = validation_errors'[k]]_vars

\* the report holds the same error for two rows of one sheet
C13_Witness ==
    /\ run_pc = "reported"
    /\ \E i, j \in 1..Len(report) :
           /\ i < j
           /\ report[i].Row # report[j].Row
           /\ report[i].Sheet = report[j].Sheet
           /\ report[i].PN = report[j].PN
           /\ report[i].Error = report[j].Error

\* C14: whatever the evaluation of one input row finds, the next row of the
\* same sheet is evaluated next.
C14_RowsNeverAbortSheet ==
    [][(run_pc = "rows" /\ row_i < Len(pairs[pair_i].input_df)) =>
          /\ run_pc' = "rows"
          /\ pair_i' = pair_i
          /\ row_i' = row_i + 1
          /\ failed_sheets' = failed_sheets]_vars

\* C15: when the validation of a sheet pair fails (no identifier column in
\* the reference sheet, or any other exception of validate_sheet), the
\* errors collected so far stay as they are, the loop goes on with the next
\* pair, and every pair is entered before the run ends.
C15_SheetFailureIsolated ==
    [][/\ failed_sheets' # failed_sheets =>
              /\ failed_sheets' = Append(failed_sheets, pairs[pair_i].sheet_name)
              /\ SubSeq(validation_errors', 1, Len(validation_errors)) = validation_errors
              /\ pair_i' = pair_i + 1
              /\ run_pc' = IF pair_i < Len(pairs) THEN "index" ELSE "done"
       /\ pair_i' \in {pair_i, pair_i + 1}
       /\ run_pc' = "done" => pair_i' = Len(pairs) + 1
       /\ (run_pc = "index" /\ ~build_raises(pairs[pair_i].shipping_df)) =>
              (run_pc' = "rows" /\ row_i' = 1 /\ pair_i' = pair_i)]_vars

\* the first sheet failed and the second one was validated after it
C15_Witness ==
    /\ run_pc = "done"
    /\ failed_sheets = <<SHEET_1>>
    /\ \E k \in 1..Len(validation_errors) : validation_errors[k].Sheet = SHEET_2

----------------------------------------------------------------------------
(* Row extractor: ExcelValidator.extract_valid_data / process_input_file.  *)
(* A frame has column labels (cells: the integers 0, 1, .. of a sheet read  *)
(* with header=None, or texts) and rows, each row carrying its index label *)
(* and its cells.  Characters outside ASCII stand as one element "uXXXX".  *)

IsNotCR(c) == c # "\r"
IsNotLF(c) == c # "\n"

\* validator.py:15-17  str(name).replace('\r', '').replace('\n', '').strip()
clean_column_name(name) == StrStrip(SelectSeq(SelectSeq(name, IsNotCR), IsNotLF))

\* validator.py:92-104
column_mappings == <<
    [standard_name |-> <<"P","/","N">>,
     possible_names |-> << <<"P","/","N">>,
                         <<"P","a","r","t"," ","N","u","m","b","e","r">>,
                         <<"P","a","r","t"," ","N","o">>,
                         <<"P","a","r","t","N","o">>,
                         <<"u6599","u53f7">> >>],
    [standard_name |-> <<"I","t","e","m"," ","N","o","s">>,
     possible_names |-> << <<"I","t","e","m"," ","N","o","s",".">>,
                         <<"I","t","e","m"," ","N","u","m","b","e","r">>,
                         <<"u9879","u76ee","u7f16","u53f7">>,
                         <<"I","t","e","m"," ","N","o">> >>],
    [standard_name |-> <<"M","o","d","e","l"," ","N","o","s">>,
     possible_names |-> << <<"M","o","d","e","l"," ","N","o","s",".">>,
                         <<"M","o","d","e","l"," ","N","u","m","b","e","r">>,
                         <<"u578b","u53f7">>,
                         <<"M","o","d","e","l">> >>],
    [standard_name |-> <<"D","e","s","c","r","i","p","t","i","o","n">>,
     possible_names |-> << <<"D","e","s","c","r","i","p","t","i","o","n">>,
                         <<"u4ea7","u54c1","u63cf","u8ff0">>,
                         <<"D","e","s","c">> >>],
    [standard_name |-> <<"Q","u","a","n","t","i","t","y"," ","P","C","S">>,
     possible_names |-> << <<"Q","u","a","n","t","i","t","y"," ","P","C","S">>,
                         <<"Q","T","Y">>,
                         <<"u6570","u91cf">>,
                         <<"Q","u","a","n","t","i","t","y">> >>],
    [standard_name |-> <<"U","n","i","t"," ","P","r","i","c","e"," ","U","S","D">>,
     possible_names |-> << <<"U","n","i","t"," ","P","r","i","c","e"," ","U","S","D">>,
                         <<"P","r","i","c","e">>,
                         <<"u5355","u4ef7">>,
                         <<"U","n","i","t"," ","P","r","i","c","e">> >>],
    [standard_name |-> <<"A","m","o","u","n","t"," ","U","S","D">>,
     possible_names |-> << <<"A","m","o","u","n","t"," ","U","S","D">>,
                         <<"T","o","t","a","l"," ","A","m","o","u","n","t">>,
                         <<"u603b","u91d1","u989d">>,
                         <<"A","m","o","u","n","t">> >>],
    [standard_name |-> <<"I","n","d","i","a"," ","H","S"," ","c","o","d","e">>,
     possible_names |-> << <<"I","n","d","i","a"," ","H","S"," ","c","o","d","e">>,
                         <<"H","S"," ","C","o","d","e">>,
                         <<"H","S","N"," ","C","o","d","e">> >>],
    [standard_name |-> <<"D","u","t","y">>,
     possible_names |-> << <<"D","u","t","y">>,
                         <<"D","u","t","y"," ","R","a","t","e">>,
                         <<"u7a0e","u7387">> >>],
    [standard_name |-> <<"W","e","l","f","a","r","e">>,
     possible_names |-> << <<"W","e","l","f","a","r","e">>,
                         <<"W","e","l","f","a","r","e"," ","T","a","x">>,
                         <<"u798f","u5229","u7a0e">> >>],
    [standard_name |-> <<"I","G","S","T">>,
     possible_names |-> << <<"I","G","S","T">>,
                         <<"G","S","T">>,
                         <<"u7efc","u5408","u7a0e">> >>] >>

\* df.rename(columns={found_col: standard_name})
rename_column(columns, found_col, standard_name) ==
    [k \in 1..Len(columns) |-> IF columns[k] = found_col THEN standard_name ELSE columns[k]]

\* next((col for col in possible_names if col in data_df.columns), None):
\* the position in possible_names, 0 for None
found_col_of(possible_names, columns) ==
    IF \E p \in 1..Len(possible_names) : possible_names[p] \in Range(columns)
    THEN CHOOSE p \in 1..Len(possible_names) :
             /\ possible_names[p] \in Range(columns)
             /\ \A q \in 1..(p - 1) : possible_names[q] \notin Range(columns)
    ELSE 0

\* validator.py:110-113  for standard_name, possible_names in column_mappings.items()
RECURSIVE standardize_columns(_, _)
standardize_columns(columns, mappings) ==
    IF mappings = <<>> THEN columns
    ELSE LET found_col == found_col_of(Head(mappings).possible_names, columns)
         IN  standardize_columns(
                 IF found_col # 0
                 THEN rename_column(columns, Head(mappings).possible_names[found_col],
                                    Head(mappings).standard_name)
                 ELSE columns,
                 Tail(mappings))

PN_LABEL == <<"P","/","N">>
QUANTITY_LABEL == <<"Q","u","a","n","t","i","t","y">>
CLEANED_PN_LABEL == <<"C","l","e","a","n","e","d","_","P","/","N">>

\* pd.DataFrame()
EMPTY_DF == [columns |-> <<>>, rows |-> <<>>]

\* a text of decimal digits, with an optional fraction
IsNumericText(s) ==
    \/ s # <<>> /\ AllDigits(s, 1, Len(s))
    \/ \E p \in 2..(Len(s) - 1) :
           s[p] = "." /\ AllDigits(s, 1, p - 1) /\ AllDigits(s, p + 1, Len(s))

\* pd.to_numeric(value, errors='coerce') on the cells of the grids: numbers
\* stay, a numeric text is parsed, any other text and a blank become NaN
to_numeric(cell) ==
    IF cell.t # "str" THEN cell
    ELSE LET s == StrStrip(cell.s)
         IN  IF ~IsNumericText(s) THEN NaN
             ELSE IF \E p \in 1..Len(s) : s[p] = "."
                  THEN LET p == CHOOSE q \in 1..Len(s) : s[q] = "."
                       IN  FloatCell(DigitsValue(SubSeq(s, 1, p - 1)), SubSeq(s, p + 1, Len(s)))
                  ELSE NumCell(DigitsValue(s))

notna(cell) == cell.t # "nan"

ColumnAt(columns, label) == CHOOSE k \in 1..Len(columns) : columns[k] = label

\* validator.py:124-127  rows with a P/N, the P/N made a stripped text
keep_rows_with_pn(rows, pn) ==
    LET HasPn(r) == notna(r.cells[pn])
        stripped(r) == [r EXCEPT !.cells[pn] = StrCell(StrStrip(PyStr(r.cells[pn])))]
        kept == SelectSeq(rows, HasPn)
    IN  [k \in 1..Len(kept) |-> stripped(kept[k])]

\* validator.py:130-132  the 'Quantity' column made numeric, rows without a number dropped
keep_rows_with_quantity(rows, q) ==
    LET numeric(r) == [r EXCEPT !.cells[q] = to_numeric(r.cells[q])]
        cast == [k \in 1..Len(rows) |-> numeric(rows[k])]
        HasQuantity(r) == notna(r.cells[q])
    IN  SelectSeq(cast, HasQuantity)

\* validator.py:136  data_df['Cleaned_P/N']
add_cleaned_pn(rows, pn) ==
    [k \in 1..Len(rows) |->
        [rows[k] EXCEPT !.cells = Append(rows[k].cells, StrCell(clean_pn_value(rows[k].cells[pn])))]]

\* validator.py:145  dropna(axis=1, how='all'): columns with no value at all go
dropna_columns(columns, rows) ==
    LET HasValue(k) == \E r \in 1..Len(rows) : notna(rows[r].cells[k])
        kept == SelectSeq([k \in 1..Len(columns) |-> k], HasValue)
    IN  [columns |-> [i \in 1..Len(kept) |-> columns[kept[i]]],
         rows |-> [r \in 1..Len(rows) |->
                      [rows[r] EXCEPT !.cells = [i \in 1..Len(kept) |-> rows[r].cells[kept[i]]]]]]

\* data_df.empty: no row or no column
df_empty(df) == df.rows = <<>> \/ df.columns = <<>>

\* validator.py:71-156; the result is the frame, the message logged for it
\* and the columns logged after standardization
extract_valid_data(df) ==
    LET header_row == extract_header_row([k \in 1..Len(df.rows) |-> df.rows[k].cells])
        data_rows == SubSeq(df.rows, header_row + 1, Len(df.rows))
        cleaned == [k \in 1..Len(df.columns) |-> clean_column_name(PyStr(df.columns[k]))]
        columns == standardize_columns(cleaned, column_mappings)
        pn == ColumnAt(columns, PN_LABEL)
        with_pn == keep_rows_with_pn(data_rows, pn)
        with_quantity == IF QUANTITY_LABEL \in Range(columns)
                         THEN keep_rows_with_quantity(with_pn, ColumnAt(columns, QUANTITY_LABEL))
                         ELSE with_pn
        final == dropna_columns(Append(columns, CLEANED_PN_LABEL), add_cleaned_pn(with_quantity, pn))
    IN  IF header_row = None
        THEN [df |-> EMPTY_DF, log |-> "Header not found", columns |-> <<>>]
        ELSE IF PN_LABEL \notin Range(columns)
        THEN [df |-> EMPTY_DF, log |-> "Missing P/N column", columns |-> columns]
        ELSE IF df_empty(final)
        THEN [df |-> EMPTY_DF, log |-> "No data rows found after processing", columns |-> columns]
        ELSE IF \A r \in 1..Len(final.rows) : ~notna(final.rows[r].cells[1])
        THEN [df |-> EMPTY_DF, log |-> "First column is empty", columns |-> columns]
        ELSE [df |-> final, log |-> "extracted", columns |-> columns]

\* Bounds of the grids drawn by InitExt
MaxGridRows == 3

ROW_HEADER ==
    << StrCell(<<"P","/","N">>),
       StrCell(<<"I","t","e","m"," ","N","o","s",".">>),
       StrCell(<<"M","o","d","e","l"," ","N","o","s",".">>),
       StrCell(<<"Q","u","a","n","t","i","t","y">>) >>
ROW_HEADER_NO_PN ==
    << StrCell(<<"D","e","s","c","r","i","p","t","i","o","n">>),
       StrCell(<<"I","t","e","m"," ","N","o","s",".">>),
       StrCell(<<"M","o","d","e","l"," ","N","o","s",".">>),
       StrCell(<<"Q","u","a","n","t","i","t","y"," ","P","C","S">>) >>
ROW_HEADER_BLANK_PN ==
    << NaN,
       StrCell(<<"I","t","e","m"," ","N","o","s",".">>),
       StrCell(<<"M","o","d","e","l"," ","N","o","s",".">>),
       StrCell(<<"Q","u","a","n","t","i","t","y"," ","P","C","S">>) >>
ROW_DATA ==
    << StrCell(<<"P","1","0","0">>),
       NumCell(1),
       StrCell(<<"M","1">>),
       NumCell(5) >>
ROW_TEXT_QUANTITY ==
    << StrCell(<<"Q","-","7">>),
       NumCell(2),
       StrCell(<<"M","2">>),
       StrCell(<<"a","b","c">>) >>
ROW_BLANK_PN ==
    << NaN,
       NumCell(3),
       StrCell(<<"M","3">>),
       NumCell(7) >>
ROW_BLANK == << NaN, NaN, NaN, NaN >>
ExtRows == {ROW_HEADER, ROW_HEADER_NO_PN, ROW_HEADER_BLANK_PN, ROW_DATA,
            ROW_TEXT_QUANTITY, ROW_BLANK_PN, ROW_BLANK}
ExtGrids == UNION {[1..k -> ExtRows] : k \in 0..MaxGridRows}

\* pd.read_excel(..., header=None): the columns are labelled 0, 1, ..
read_excel_no_header(g) ==
    [columns |-> IF g = <<>> THEN <<>> ELSE [k \in 1..Len(g[1]) |-> NumCell(k - 1)],
     rows |-> [k \in 1..Len(g) |-> [idx |-> k - 1, cells |-> g[k]]]]

\* a frame whose columns carry the given labels
labelled_frame(labels, g) ==
    [columns |-> labels, rows |-> [k \in 1..Len(g) |-> [idx |-> k - 1, cells |-> g[k]]]]

ExtLabels == { ROW_HEADER, ROW_HEADER_NO_PN,
    << StrCell(<<"P","a","r","t"," ","N","o">>),
       StrCell(<<"I","t","e","m"," ","N","o">>),
       StrCell(<<"M","o","d","e","l">>),
       StrCell(<<"Q","u","a","n","t","i","t","y"," ","P","C","S">>) >>,
    << StrCell(<<" ","P","/","N","\n">>),
       StrCell(<<"d","e","s","c">>),
       StrCell(<<"Q","T","Y">>),
       StrCell(<<"Q","u","a","n","t","i","t","y">>) >> }
ExtFrames == {read_excel_no_header(g) : g \in ExtGrids}
                 \cup {labelled_frame(l, g) : l \in ExtLabels, g \in ExtGrids}

SHEET_A == <<"A">>
SHEET_B == <<"B">>
Sheet(name, g) == [name |-> name, grid |-> g]
Workbooks ==
    {<<Sheet(SHEET_A, g)>> : g \in ExtGrids}
        \cup {<<Sheet(SHEET_A, g), Sheet(SHEET_B, <<ROW_HEADER, ROW_DATA>>)>> : g \in ExtGrids}
        \cup {<<Sheet(SHEET_B, <<ROW_BLANK, ROW_HEADER, ROW_DATA, ROW_DATA>>), Sheet(SHEET_A, g)>> :
                 g \in ExtGrids}

InitExt ==
    /\ IdlePn
    /\ IdleHdr
    /\ IdleLoc
    /\ IdleCol
    /\ IdleDuty
    /\ IdleMatch
    /\ IdleRun
    /\ IdleMain
    /\ IdleNorm
    /\ IdleConv
    /\ \/ /\ xl \in Workbooks
          /\ xl_i = 1
          /\ ext_df = <<>>
          /\ ext_pc = "idle"
       \/ /\ xl = <<>>
          /\ xl_i = 0
          /\ ext_df \in {<<f>> : f \in ExtFrames}
          /\ ext_pc = "start"
    /\ processed = <<>>
    /\ ext_result = <<>>
    /\ extract_log = <<>>

\* validator.py:167-171  one sheet of process_input_file
ProcessInputSheet ==
    /\ xl_i \in 1..Len(xl)
    /\ \E result \in {extract_valid_data(read_excel_no_header(xl[xl_i].grid))} :
           /\ processed' = IF ~df_empty(result.df)
                           THEN DictPut(processed, xl[xl_i].name, result.df)
                           ELSE processed
           /\ extract_log' = Append(extract_log, [file_type |-> xl[xl_i].name, msg |-> result.log,
                                               columns |-> result.columns])
    /\ xl_i' = xl_i + 1
    /\ UNCHANGED <<xl, ext_df, ext_pc, ext_result, notExt>>

\* validator.py:71-156  extract_valid_data called on a frame
ExtractValidData ==
    /\ ext_pc = "start"
    /\ \E result \in {extract_valid_data(ext_df[1])} :
           /\ ext_result' = <<result.df>>
           /\ extract_log' = Append(extract_log, [file_type |-> <<>>, msg |-> result.log,
                                               columns |-> result.columns])
    /\ ext_pc' = "done"
    /\ UNCHANGED <<xl, xl_i, processed, ext_df, notExt>>

NextExt == ProcessInputSheet \/ ExtractValidData

SpecExt == InitExt /\ [][NextExt]_vars

----------------------------------------------------------------------------
(* Claims on the row extractor                                             *)

ProcessedNames == {processed[k].name : k \in 1..Len(processed)}
GridHeader(g) == extract_header_row(g)

\* the text of the cell is a spelling of the identifier column
IsPnSpelling(cell) ==
    cell.t = "str" /\ clean_column_name(cell.s) \in Range(column_mappings[1].possible_names)
HeaderHasPn(g) ==
    GridHeader(g) # None /\ \E c \in 1..Len(g[GridHeader(g) + 1]) : IsPnSpelling(g[GridHeader(g) + 1][c])
HeaderLacksPn(g) == GridHeader(g) # None /\ ~HeaderHasPn(g)

\* rows below the header that have an identifier in the identifier column
RecordsBelowHeader(g) ==
    LET h == GridHeader(g) + 1
        pn == CHOOSE c \in 1..Len(g[h]) : IsPnSpelling(g[h][c])
    IN  {k \in (h + 1)..Len(g) : notna(g[k][pn])}

\* C16: a sheet whose header has no P/N column gives no records, and the
\* other sheets of the workbook still give theirs: process_input_file
\* returns every sheet that has a header with a P/N column and records below it.
C16_MissingPnColumnIsolated ==
    \A k \in 1..(xl_i - 1) :
        /\ HeaderLacksPn(xl[k].grid) => xl[k].name \notin ProcessedNames
        /\ (HeaderHasPn(xl[k].grid) /\ RecordsBelowHeader(xl[k].grid) # {}) =>
               xl[k].name \in ProcessedNames

ExtDone == ext_pc = "done"
ExtGrid == [k \in 1..Len(ext_df[1].rows) |-> ext_df[1].rows[k].cells]
ExtRecords == ext_result[1].rows

\* C18: the records extracted from a grid whose header is at row h all come
\* from rows below h: neither the header row nor a row above it is a record.
C18_HeaderAndAboveDropped ==
    (ExtDone /\ GridHeader(ExtGrid) # None) =>
        \A r \in 1..Len(ExtRecords) : ExtRecords[r].idx > GridHeader(ExtGrid)

QuantityLabels == {column_mappings[5].standard_name} \cup Range(column_mappings[5].possible_names)
IsNumberCell(cell) == cell.t \in {"num", "float"}

\* C19: every record extracted from below the header has a number in the
\* column of the quantity field; rows whose quantity is not a number are dropped.
C19_QuantityIsNumeric ==
    (ExtDone /\ GridHeader(ExtGrid) # None) =>
        \A r \in 1..Len(ExtRecords) :
            ExtRecords[r].idx > GridHeader(ExtGrid) =>
                \A c \in 1..Len(ext_result[1].columns) :
                    ext_result[1].columns[c] \in QuantityLabels =>
                        IsNumberCell(ExtRecords[r].cells[c])

\* the label the schema normalizer owes a header cell: the canonical field
\* whose spellings contain the cleaned text whatever the letter case, the
\* first such field if several, the cleaned text itself if none
SpellsField(text, m) ==
    \E p \in 1..Len(column_mappings[m].possible_names) :
        StrLower(column_mappings[m].possible_names[p]) = StrLower(text)
CanonicalLabel(cell) ==
    LET text == clean_column_name(PyStr(cell))
        fields == {m \in 1..Len(column_mappings) : SpellsField(text, m)}
    IN  IF fields = {} THEN text
        ELSE column_mappings[CHOOSE m \in fields : \A n \in fields : m <= n].standard_name

\* C20: the columns after standardization are the cells of the located
\* header row, each cleaned and relabeled to its canonical field (spellings
\* compared case-insensitively) or left as its cleaned text, in the same order.
C20_HeaderRelabeled ==
    (ExtDone /\ GridHeader(ExtGrid) # None) =>
        LET header == ExtGrid[GridHeader(ExtGrid) + 1]
        IN  extract_log[1].columns = [c \in 1..Len(header) |-> CanonicalLabel(header[c])]

-----------------------------------------------------------------------------
(* The command: main                                                       *)

\* the largest number of validation errors a run collects
MaxCollected == 2

\* the three files named on the command line; a file is readable when
\* pd.read_excel parses it into a grid
Sources == [input : BOOLEAN, shipping : BOOLEAN, duty : BOOLEAN]

\* what a normalization subprocess leaves behind: it exits nonzero
\* (check_call raises CalledProcessError), it exits zero without creating
\* its output (main raises FileNotFoundError), or it exits zero and the
\* output exists, readable or not
NormalizerOutcomes == {"nonzero", "no output", "readable", "unreadable"}

\* normalize-shipping.py:12-41  normalize_shipping_file: read_excel raises on
\* an unreadable file; on a readable one the writer fails when no sheet has
\* shipping content, and otherwise writes a workbook
normalize_shipping_outcomes(shipping_readable) ==
    IF shipping_readable THEN {"nonzero", "readable"} ELSE {"nonzero"}

InitMain ==
    /\ IdlePn
    /\ IdleHdr
    /\ IdleLoc
    /\ IdleCol
    /\ IdleDuty
    /\ IdleMatch
    /\ IdleRun
    /\ IdleExt
    /\ IdleNorm
    /\ IdleConv
    /\ readable \in Sources
    /\ debug \in BOOLEAN
    /\ normalized_input = "absent"
    /\ normalized_shipping = "absent"
    /\ main_pc = "parse_args"
    /\ collected = 0
    /\ log_level = "INFO"
    /\ exit_status = -1
    /\ report_written = FALSE

\* validator.py:428-432
ParseArgs ==
    /\ main_pc = "parse_args"
    /\ log_level' = IF debug THEN "DEBUG" ELSE log_level
    /\ main_pc' = "normalize_input"
    /\ UNCHANGED <<readable, debug, normalized_input, normalized_shipping, collected,
                   exit_status, report_written>>
    /\ UNCHANGED notMain

\* validator.py:443-454 and 468-470  the input normalizer is a subprocess;
\* any failure is logged and main returns
NormalizeInput ==
    /\ main_pc = "normalize_input"
    /\ \E outcome \in NormalizerOutcomes :
          IF outcome \in {"nonzero", "no output"}
          THEN /\ main_pc' = "exited"
               /\ exit_status' = 0
               /\ UNCHANGED normalized_input
          ELSE /\ main_pc' = "normalize_shipping"
               /\ normalized_input' = outcome
               /\ UNCHANGED exit_status
    /\ UNCHANGED <<readable, debug, normalized_shipping, collected, log_level, report_written>>
    /\ UNCHANGED notMain

\* validator.py:456-470
NormalizeShipping ==
    /\ main_pc = "normalize_shipping"
    /\ \E outcome \in normalize_shipping_outcomes(readable.shipping) :
          IF outcome = "nonzero"
          THEN /\ main_pc' = "exited"
               /\ exit_status' = 0
               /\ UNCHANGED normalized_shipping
          ELSE /\ main_pc' = "validate_all"
               /\ normalized_shipping' = outcome
               /\ UNCHANGED exit_status
    /\ UNCHANGED <<readable, debug, normalized_input, collected, log_level, report_written>>
    /\ UNCHANGED notMain

\* validator.py:219-236  load_excel_files re-raises what read_excel raised
load_excel_files_raises ==
    \/ ~readable.duty
    \/ normalized_input # "readable"
    \/ normalized_shipping # "readable"

\* validator.py:473-478 and 343-374  validate_all: a load failure leaves main
\* as an uncaught exception (exit status 1); otherwise the pairs are
\* validated and the errors collected
ValidateAll ==
    /\ main_pc = "validate_all"
    /\ IF load_excel_files_raises
       THEN /\ main_pc' = "exited"
            /\ exit_status' = 1
            /\ UNCHANGED collected
       ELSE /\ main_pc' = "generate_report"
            /\ collected' \in 0..MaxCollected
            /\ UNCHANGED exit_status
    /\ UNCHANGED <<readable, debug, normalized_input, normalized_shipping, log_level,
                   report_written>>
    /\ UNCHANGED notMain

\* validator.py:479 and 376-386
MainGenerateReport ==
    /\ main_pc = "generate_report"
    /\ report_written' = TRUE
    /\ main_pc' = "exited"
    /\ exit_status' = 0
    /\ UNCHANGED <<readable, debug, normalized_input, normalized_shipping, collected, log_level>>
    /\ UNCHANGED notMain

NextMain == ParseArgs \/ NormalizeInput \/ NormalizeShipping \/ ValidateAll \/ MainGenerateReport

SpecMain == InitMain /\ [][NextMain]_vars

-----------------------------------------------------------------------------
(* Claims on the command                                                   *)

AllSourcesLoad == readable.input /\ readable.shipping /\ readable.duty

\* C17: a run ends with a nonzero status only when a required source cannot
\* be loaded, and then without a report; whenever all three sources load it
\* ends with status zero and the report written, however many errors were
\* collected.
C17_RunOutcome ==
    main_pc = "exited" =>
        /\ exit_status # 0 => (~AllSourcesLoad /\ ~report_written)
        /\ AllSourcesLoad => (exit_status = 0 /\ report_written)

-----------------------------------------------------------------------------
(* Schema normalizers: clean_headers (normalize-shipping.py) and the       *)
(* standardization loop of extract_valid_data (validator.py)               *)

\* normalize-shipping.py:103-111
column_map == <<
    [standard_name |-> <<"I","t","e","m"," ","N","o",".">>,
     variants |-> << <<"I","t","e","m"," ","N","o","s",".">>,
                     <<"I","t","e","m"," ","N","o","s">>,
                     <<"I","t","e","m"," ","N","u","m","b","e","r">>,
                     <<"I","t","e","m">>,
                     <<"I","t","e","m","#">>,
                     <<"I","t","e","m"," ","C","o","d","e">> >>],
    [standard_name |-> <<"M","o","d","e","l"," ","N","o",".">>,
     variants |-> << <<"M","o","d","e","l"," ","N","o",".">>,
                     <<"M","o","d","e","l"," ","N","u","m","b","e","r">>,
                     <<"M","o","d","e","l"," ","N","o","s">> >>],
    [standard_name |-> <<"P","/","N">>,
     variants |-> << <<"P","/","N">>,
                     <<"P","a","r","t"," ","N","u","m","b","e","r">>,
                     <<"P","a","r","t"," ","N","o">> >>],
    [standard_name |-> <<"D","e","s","c","r","i","p","t","i","o","n">>,
     variants |-> << <<"D","e","s","c","r","i","p","t","i","o","n">>,
                     <<"D","e","s","c">> >>],
    [standard_name |-> <<"Q","u","a","n","t","i","t","y"," ","P","C","S">>,
     variants |-> << <<"Q","u","a","n","t","i","t","y"," ","P","C","S">>,
                     <<"Q","T","Y">>,
                     <<"Q","u","a","n","t","i","t","y">> >>],
    [standard_name |-> <<"U","n","i","t"," ","P","r","i","c","e"," ","U","S","D">>,
     variants |-> << <<"U","n","i","t"," ","P","r","i","c","e"," ","U","S","D">>,
                     <<"U","n","i","t"," ","P","r","i","c","e">>,
                     <<"P","r","i","c","e">> >>],
    [standard_name |-> <<"A","m","o","u","n","t"," ","U","S","D">>,
     variants |-> << <<"A","m","o","u","n","t"," ","U","S","D">>,
                     <<"A","m","o","u","n","t">>,
                     <<"T","o","t","a","l">> >>] >>

\* normalize-shipping.py:118  any(header_str.lower() == clean_column_name(v).lower() ...)
is_variant(header_str, variants) ==
    \E v \in 1..Len(variants) :
        StrLower(header_str) = StrLower(clean_column_name(variants[v]))

\* normalize-shipping.py:114-125  one header: the first standard name one of
\* whose variants it equals, else the cleaned header
clean_header(header) ==
    LET header_str == clean_column_name(PyStr(header))
        hits == {m \in 1..Len(column_map) : is_variant(header_str, column_map[m].variants)}
    IN  IF hits = {} THEN header_str
        ELSE column_map[CHOOSE m \in hits : \A n \in hits : m <= n].standard_name

\* normalize-shipping.py:101-126
clean_headers(headers_) == [k \in 1..Len(headers_) |-> clean_header(headers_[k])]

\* validator.py:89-113  the labels cleaned, then standardized
standardized_columns(labels) ==
    standardize_columns([k \in 1..Len(labels) |-> clean_column_name(PyStr(labels[k]))],
                        column_mappings)

\* Bounds of the header rows drawn by InitNorm
MaxHeaders == 3
HeaderTexts == { <<"Q","T","Y">>,
                 <<"Q","u","a","n","t","i","t","y">>,
                 <<" ","q","u","a","n","t","i","t","y","\n">>,
                 <<"P","/","N">>,
                 <<"P","a","r","t"," ","N","o">>,
                 <<"I","t","e","m"," ","N","o","s">>,
                 <<"I","t","e","m"," ","N","o">>,
                 <<"C","o","l","o","r">> }
HeaderCells == {StrCell(t) : t \in HeaderTexts} \cup {NaN}
HeaderRows == UNION {[1..k -> HeaderCells] : k \in 1..MaxHeaders}

InitNorm ==
    /\ IdlePn
    /\ IdleHdr
    /\ IdleLoc
    /\ IdleCol
    /\ IdleDuty
    /\ IdleMatch
    /\ IdleRun
    /\ IdleExt
    /\ IdleMain
    /\ IdleConv
    /\ headers \in HeaderRows
    /\ clean_pc = "start"
    /\ std_pc = "start"
    /\ cleaned_headers = <<>>
    /\ standardized = <<>>

\* normalize-shipping.py:52  shipping_df.columns = clean_headers(shipping_df.iloc[0])
CleanHeaders ==
    /\ clean_pc = "start"
    /\ cleaned_headers' = clean_headers(headers)
    /\ clean_pc' = "done"
    /\ UNCHANGED <<headers, std_pc, standardized>>
    /\ UNCHANGED notNorm

\* validator.py:89-113  on a frame whose labels are the header row
StandardizeColumns ==
    /\ std_pc = "start"
    /\ standardized' = standardized_columns(headers)
    /\ std_pc' = "done"
    /\ UNCHANGED <<headers, clean_pc, cleaned_headers>>
    /\ UNCHANGED notNorm

NextNorm == CleanHeaders \/ StandardizeColumns

SpecNorm == InitNorm /\ [][NextNorm]_vars

-----------------------------------------------------------------------------
(* Claims on the schema normalizers                                        *)

\* the standard names of the two synonym tables
CanonicalNames ==
    {column_map[m].standard_name : m \in 1..Len(column_map)}
        \cup {column_mappings[m].standard_name : m \in 1..Len(column_mappings)}

RawSpelling(k) == clean_column_name(PyStr(headers[k]))

\* no two columns of different raw spellings carry one canonical name
NoSharedCanonical(columns) ==
    \A i, j \in 1..Len(columns) :
        (i < j /\ RawSpelling(i) # RawSpelling(j) /\ columns[i] \in CanonicalNames)
            => columns[i] # columns[j]

\* C21: after schema normalization of a header row, no two columns of
\* different raw spellings carry the same canonical field name: of 'QTY' and
\* 'Quantity' only the first is mapped to 'Quantity PCS'.
C21_OneColumnPerField ==
    /\ clean_pc = "done" => NoSharedCanonical(cleaned_headers)
    /\ std_pc = "done" => NoSharedCanonical(standardized)

-----------------------------------------------------------------------------
(* Invoice converter: ExcelConverter (convert-excel.py)                    *)

\* convert-excel.py:21-25
skip_patterns == << <<"J","o","b"," ","N","o"," ","S","I","/","M">>, <<"B","L"," ","N","o","."," ","H","A","S","L","C">>, <<"P","o","r","t"," ","O","f"," ","L","o","a","d","i","n","g">> >>

\* ' '.join(str(val) for val in row.values)
RECURSIVE JoinValues(_)
JoinValues(cells) ==
    IF cells = <<>> THEN <<>>
    ELSE IF Len(cells) = 1 THEN PyStr(cells[1])
    ELSE PyStr(cells[1]) \o <<" ">> \o JoinValues(Tail(cells))

\* convert-excel.py:34-46  any of 'P/N', 'Desc', 'HSN', upper-cased, occurs in
\* the upper-cased join of the row
ExcelConverter_is_header_row(row_) ==
    \E col \in {<<"P","/","N">>, <<"D","e","s","c">>, <<"H","S","N">>} :
        Contains(StrUpper(JoinValues(row_)), StrUpper(col))

\* the last position of the longest run of characters of a class starting at
\* p (p - 1 when the run is empty): a greedy \d+ or [A-Z]*
RunEnd(s, p, class) ==
    IF p > Len(s) \/ p < 1 THEN p - 1
    ELSE IF s[p] \notin class THEN p - 1
    ELSE CHOOSE q \in p..Len(s) :
            /\ \A k \in p..q : s[k] \in class
            /\ (q = Len(s) \/ s[q + 1] \notin class)

\* the end of the match of \d+HC\d+-\d+[A-Z]* that starts at p, 0 when none
invoice_number_end(s, p) ==
    LET q == RunEnd(s, p, DigitSet)
        r == RunEnd(s, q + 3, DigitSet)
        t == RunEnd(s, r + 2, DigitSet)
    IN  IF /\ q >= p
           /\ LitAt(s, q + 1, <<"H","C">>)
           /\ r >= q + 3
           /\ CharAt(s, r + 1) = "-"
           /\ t >= r + 2
        THEN RunEnd(s, t + 1, UpperSet)
        ELSE 0

\* convert-excel.py:48-63  (is_invoice, invoice_number): the row holds
\* 'Invoice:' in any letter case and a number shaped \d+HC\d+-\d+[A-Z]*, of
\* which re.search gives the leftmost
is_invoice_row(row_) ==
    LET s == JoinValues(row_)
        starts == {p \in 1..Len(s) : invoice_number_end(s, p) # 0}
    IN  IF Contains(StrLower(s), <<"i","n","v","o","i","c","e",":">>) /\ starts # {}
        THEN LET p == CHOOSE x \in starts : \A y \in starts : x <= y
             IN  [is_invoice |-> TRUE, invoice_number |-> SubSeq(s, p, invoice_number_end(s, p))]
        ELSE [is_invoice |-> FALSE, invoice_number |-> <<>>]

\* convert-excel.py:65-71  a skip pattern occurs, letter for letter, in the join
should_skip_row(row_) ==
    \E i \in 1..Len(skip_patterns) : Contains(JoinValues(row_), skip_patterns[i])

\* the one character U+00B1 (plus-minus sign)
PLUS_MINUS == "+/-"

\* the first position at which lit occurs in s, 0 when it does not
Find(s, lit) ==
    IF Contains(s, lit)
    THEN CHOOSE p \in 1..Len(s) : LitAt(s, p, lit) /\ \A k \in 1..(p - 1) : ~LitAt(s, k, lit)
    ELSE 0

\* the first position of the run of whitespace that ends just before p
SpaceRunStart(s, p) ==
    CHOOSE a \in 1..p :
        /\ \A k \in a..(p - 1) : IsSpace(s[k])
        /\ (a = 1 \/ ~IsSpace(s[a - 1]))

\* convert-excel.py:32,77  plus_minus_pattern.sub: every '\s*\+OR-\s*', in any
\* letter case, becomes the plus-minus sign
RECURSIVE sub_plus_minus(_)
sub_plus_minus(s) ==
    LET k == Find(StrUpper(s), <<"+","O","R","-">>)
    IN  IF k = 0 THEN s
        ELSE LET a == SpaceRunStart(s, k)
                 b == RunEnd(s, k + 4, {" ", "\t", "\n", "\r"})
             IN  SubSeq(s, 1, a - 1) \o <<PLUS_MINUS>> \o sub_plus_minus(SubSeq(s, b + 1, Len(s)))

\* convert-excel.py:73-78
clean_description(desc) == sub_plus_minus(StrStrip(desc))

\* re.sub(r'-\s*$', '', s) on a stripped string: one trailing hyphen goes
DropTrailingHyphen(s) ==
    IF s # <<>> /\ s[Len(s)] = "-" THEN SubSeq(s, 1, Len(s) - 1) ELSE s

\* str.split(sep)[0]
BeforeFirst(s, sep) ==
    LET k == Find(s, sep) IN IF k = 0 THEN s ELSE SubSeq(s, 1, k - 1)

\* [\w\.-]
IsModelChar(c) == IsWordChar(c) \/ c \in {".", "-"}

\* the group of ([\w\.-]+?)(?:\s*$|-\s*$) matched on the stripped text rest:
\* all of it, less one trailing hyphen when something is left; <<>> when the
\* pattern does not match
model_no_group(rest) ==
    IF rest = <<>> \/ \E k \in 1..Len(rest) : ~IsModelChar(rest[k]) THEN <<>>
    ELSE IF Len(rest) >= 2 /\ rest[Len(rest)] = "-" THEN SubSeq(rest, 1, Len(rest) - 1)
    ELSE rest

\* the match of model_no_pattern that starts at k: after 'MODEL NO' an optional
\* dot (taken when that gives a match) and whitespace
model_no_at(s, k) ==
    LET after(p) == SubSeq(s, RunEnd(s, p, {" ", "\t", "\n", "\r"}) + 1, Len(s))
        dotted == IF CharAt(s, k + 8) = "." THEN model_no_group(after(k + 9)) ELSE <<>>
    IN  IF dotted # <<>> THEN dotted ELSE model_no_group(after(k + 8))

\* convert-excel.py:29,86,98  model_no_pattern.search(desc_str): the group of
\* the leftmost match, '' when there is none
model_no_of(s) ==
    LET starts == {k \in 1..Len(s) : LitAt(StrUpper(s), k, <<"M","O","D","E","L"," ","N","O">>) /\ model_no_at(s, k) # <<>>}
    IN  IF starts = {} THEN <<>>
        ELSE model_no_at(s, CHOOSE k \in starts : \A j \in starts : k <= j)

\* convert-excel.py:80-99
split_description(desc_cell) ==
    LET desc_str == StrStrip(PyStr(desc_cell))
        base_desc == DropTrailingHyphen(StrStrip(BeforeFirst(desc_str, <<"-","P","A","R","T"," ","N","O">>)))
    IN  [Description |-> clean_description(base_desc), Model_No |-> model_no_of(desc_str)]

\* the greatest member of a non-empty set of integers
MaxOf(S) == CHOOSE x \in S : \A y \in S : y <= x

\* round(2) on one number: a float keeps two digits after the point, rounded
\* to nearest (a tie to the even digit); str() of the result drops a trailing
\* zero
round2(cell) ==
    IF cell.t # "float" \/ Len(cell.s) <= 2 THEN cell
    ELSE LET d(k) == DigitValue(cell.s[k])
             h == 10 * d(1) + d(2)
             beyond == {k \in 4..Len(cell.s) : d(k) # 0}
             up == d(3) > 5 \/ (d(3) = 5 /\ (beyond # {} \/ h % 2 = 1))
             h2 == IF up THEN h + 1 ELSE h
             n2 == cell.n + (h2 \div 100)
             c2 == h2 % 100
         IN  FloatCell(n2, IF c2 % 10 = 0 THEN <<DigitChars[(c2 \div 10) + 1]>>
                           ELSE <<DigitChars[(c2 \div 10) + 1], DigitChars[(c2 % 10) + 1]>>)

ITEM_NOS_DOT == StrCell(<<"I","t","e","m"," ","N","o","s",".">>)
MODEL_NOS_DOT == StrCell(<<"M","o","d","e","l"," ","N","o","s",".">>)
AMOUNT_USD == StrCell(<<"A","m","o","u","n","t"," ","U","S","D">>)

\* convert-excel.py:169
first_columns ==
    << ITEM_NOS_DOT, MODEL_NOS_DOT, StrCell(<<"P","/","N">>), StrCell(<<"D","e","s","c","r","i","p","t","i","o","n">>),
       StrCell(<<"Q","u","a","n","t","i","t","y"," ","P","C","S">>), StrCell(<<"U","n","i","t"," ","P","r","i","c","e"," ","U","S","D">>), AMOUNT_USD >>

\* convert-excel.py:146-155  the replacement of one column name
rename_header(col) ==
    CASE col = StrCell(<<"D","e","s","c">>) -> StrCell(<<"D","e","s","c","r","i","p","t","i","o","n">>)
      [] col = StrCell(<<"H","S","N">>) -> StrCell(<<"I","n","d","i","a"," ","H","S"," ","c","o","d","e">>)
      [] col = StrCell(<<"C","a","t","e","g","o","r","y">>) -> StrCell(<<"I","t","e","m"," ","n","a","m","e">>)
      [] col = StrCell(<<"Q","t","y">>) -> StrCell(<<"Q","u","a","n","t","i","t","y"," ","P","C","S">>)
      [] col = StrCell(<<"P","r","i","c","e">>) -> StrCell(<<"U","n","i","t"," ","P","r","i","c","e"," ","U","S","D">>)
      [] col = StrCell(<<"V","a","l","u","e"," ","A","m","t">>) -> AMOUNT_USD
      [] OTHER -> col

\* convert-excel.py:104-110  the position of the last header cell that reads
\* 'DESC' once upper-cased and stripped, 0 for None
desc_col_of(header_row_) ==
    LET hits == {i \in 1..Len(header_row_) : StrStrip(StrUpper(PyStr(header_row_[i]))) = <<"D","E","S","C">>}
    IN  IF hits = {} THEN 0 ELSE MaxOf(hits)

\* the position of the last header cell that reads 'Category', 0 for None
category_col_of(header_row_) ==
    LET hits == {i \in 1..Len(header_row_) : PyStr(header_row_[i]) = <<"C","a","t","e","g","o","r","y">>}
    IN  IF hits = {} THEN 0 ELSE MaxOf(hits)

\* one row of split_data when item_number is never incremented
split_row_unnumbered(row_, item_number, desc_col, category_col) ==
    LET desc_parts == split_description(row_[desc_col])
        item_name == StrStrip(BeforeFirst(desc_parts.Description, <<"-">>))
        w == Len(row_)
    IN  [k \in 1..(w + 2) |->
            IF k = 1 THEN NumCell(1)
            ELSE IF k = w + 2 THEN StrCell(desc_parts.Model_No)
            ELSE IF k = category_col + 1 /\ category_col # 0 THEN StrCell(item_name)
            ELSE IF k = desc_col + 1 THEN StrCell(desc_parts.Description)
            ELSE row_[k - 1]]

\* convert-excel.py:120-139  one row of split_data: the item number, the cells
\* of the row with the description (and the category) replaced, the model
\* number
split_row(row_, item_number, desc_col, category_col) ==
    LET desc_parts == split_description(row_[desc_col])
        item_name == StrStrip(BeforeFirst(desc_parts.Description, <<"-">>))
        w == Len(row_)
    IN  [k \in 1..(w + 2) |->
            IF k = 1 THEN NumCell(item_number)
            ELSE IF k = w + 2 THEN StrCell(desc_parts.Model_No)
            ELSE IF k = category_col + 1 /\ category_col # 0 THEN StrCell(item_name)
            ELSE IF k = desc_col + 1 THEN StrCell(desc_parts.Description)
            ELSE row_[k - 1]]

\* pd.DataFrame(rows): a column of numbers that holds a float or a blank
\* becomes float64, so its ints turn into floats; a column with text keeps its
\* objects
upcast_columns(rows) ==
    LET floating(c) == /\ \A r \in 1..Len(rows) : rows[r][c].t # "str"
                       /\ \E r \in 1..Len(rows) : rows[r][c].t \in {"float", "nan"}
    IN  [r \in 1..Len(rows) |->
            [c \in 1..Len(rows[r]) |->
                IF rows[r][c].t = "num" /\ floating(c)
                THEN FloatCell(rows[r][c].n, <<"0">>) ELSE rows[r][c]]]

\* convert-excel.py:165-166  the values of every column named 'Amount USD'
\* are rounded when the column holds no text
round_amounts(columns, rows) ==
    LET numeric(c) == \A r \in 1..Len(rows) : rows[r][c].t # "str"
    IN  [r \in 1..Len(rows) |->
            [c \in 1..Len(columns) |->
                IF columns[c] = AMOUNT_USD /\ numeric(c) THEN round2(rows[r][c]) ELSE rows[r][c]]]

\* the positions new_df[ordered_columns] takes, in order: for each label every
\* column that carries it
RECURSIVE positions_of(_, _)
positions_of(columns, labels) ==
    IF labels = <<>> THEN <<>>
    ELSE LET hits == {c \in 1..Len(columns) : columns[c] = Head(labels)}
             inorder == [k \in 1..Cardinality(hits) |->
                            CHOOSE c \in hits : Cardinality({x \in hits : x < c}) = k - 1]
         IN  inorder \o positions_of(columns, Tail(labels))

IsOtherColumn(col) == \A k \in 1..Len(first_columns) : first_columns[k] # col

\* convert-excel.py:101-180  the frame made of the rows df collected for one
\* invoice: [columns, rows, raised]; raised is the KeyError of
\* new_df[ordered_columns] when a first column is missing. Without a 'DESC'
\* header cell the rows come back as they are, under the labels 0..w-1
process_dataframe(df, header_row_) ==
    LET desc_col == desc_col_of(header_row_)
        category_col == category_col_of(header_row_)
        split_data == [r \in 1..Len(df) |-> split_row(df[r], r, desc_col, category_col)]
        new_header == <<ITEM_NOS_DOT>>
                        \o [k \in 1..Len(header_row_) |-> rename_header(header_row_[k])]
                        \o <<MODEL_NOS_DOT>>
        rounded == round_amounts(new_header, upcast_columns(split_data))
        ordered_columns == first_columns \o SelectSeq(new_header, IsOtherColumn)
        take == positions_of(new_header, ordered_columns)
    IN  IF desc_col = 0
        THEN [columns |-> [k \in 1..Len(header_row_) |-> NumCell(k - 1)],
              rows |-> upcast_columns(df), raised |-> FALSE]
        ELSE IF \E k \in 1..Len(first_columns) :
                    \A c \in 1..Len(new_header) : new_header[c] # first_columns[k]
        THEN [columns |-> <<>>, rows |-> <<>>, raised |-> TRUE]
        ELSE [columns |-> [k \in 1..Len(take) |-> new_header[take[k]]],
              rows |-> [r \in 1..Len(rounded) |-> [k \in 1..Len(take) |-> rounded[r][take[k]]]],
              raised |-> FALSE]

\* the locals of process_sheet as one record
SheetLocals ==
    [header_row |-> conv_header_row, current_invoice |-> current_invoice,
     current_data |-> current_data, sheet_data |-> sheet_data, raised |-> FALSE]

\* convert-excel.py:210-212, 225-227  a non-empty batch of the current invoice
\* is processed and stored under its number
save_batch(st) ==
    IF st.current_invoice # <<>> /\ st.current_data # <<>>
    THEN LET out == process_dataframe(st.current_data, st.header_row)
         IN  IF out.raised THEN [st EXCEPT !.raised = TRUE]
             ELSE [st EXCEPT !.sheet_data =
                        DictPut(@, st.current_invoice, [columns |-> out.columns, rows |-> out.rows])]
    ELSE st

\* the loop body without the test for a header row: a row is collected as
\* soon as an invoice is open
scan_row_without_header(st, row_) ==
    IF should_skip_row(row_) THEN st
    ELSE IF st.header_row = <<>> /\ ExcelConverter_is_header_row(row_)
    THEN [st EXCEPT !.header_row = row_]
    ELSE LET inv == is_invoice_row(row_)
         IN  IF inv.is_invoice
             THEN LET saved == save_batch(st)
                  IN  IF saved.raised THEN saved
                      ELSE [saved EXCEPT !.current_invoice = inv.invoice_number,
                                         !.current_data = <<>>]
             ELSE IF st.current_invoice # <<>>
             THEN [st EXCEPT !.current_data = Append(@, row_)]
             ELSE st

\* convert-excel.py:191-222  the body of the loop of process_sheet on one row
scan_row(st, row_) ==
    IF should_skip_row(row_) THEN st
    ELSE IF st.header_row = <<>> /\ ExcelConverter_is_header_row(row_)
    THEN [st EXCEPT !.header_row = row_]
    ELSE LET inv == is_invoice_row(row_)
         IN  IF inv.is_invoice
             THEN LET saved == save_batch(st)
                  IN  IF saved.raised THEN saved
                      ELSE [saved EXCEPT !.current_invoice = inv.invoice_number,
                                         !.current_data = <<>>]
             ELSE IF st.current_invoice # <<>> /\ st.header_row # <<>>
             THEN [st EXCEPT !.current_data = Append(@, row_)]
             ELSE st

\* dict.update(other)
RECURSIVE dict_update(_, _)
dict_update(d, other) ==
    IF other = <<>> THEN d
    ELSE dict_update(DictPut(d, Head(other).name, Head(other).df), Tail(other))

IsSheetNameChar(c) == c \notin {"\\", "/", "*", "[", "]", ":", "?"}

\* convert-excel.py:271-273
output_sheet_name(invoice_num) ==
    LET name == SelectSeq(invoice_num, IsSheetNameChar)
    IN  IF Len(name) > 31 THEN SubSeq(name, 1, 31) ELSE name

\* Rows of an invoice sheet, five cells wide as read with header=None
BLANK == NaN
HEADER == << StrCell(<<"P","/","N">>), StrCell(<<"D","e","s","c">>), StrCell(<<"Q","t","y">>), StrCell(<<"P","r","i","c","e">>), StrCell(<<"V","a","l","u","e"," ","A","m","t">>) >>
HEADER_LONG == << StrCell(<<"P","/","N">>), StrCell(<<"D","e","s","c","r","i","p","t","i","o","n">>), StrCell(<<"Q","t","y">>), StrCell(<<"P","r","i","c","e">>), StrCell(<<"V","a","l","u","e"," ","A","m","t">>) >>
HEADER_UPPER == << StrCell(<<"P","/","N">>), StrCell(<<"D","E","S","C">>), StrCell(<<"Q","t","y">>), StrCell(<<"P","r","i","c","e">>), StrCell(<<"V","a","l","u","e"," ","A","m","t">>) >>
INVOICE_1 == << StrCell(<<"I","n","v","o","i","c","e",":"," ","2","4","H","C","0","1","7","1","3","-","1","S">>), BLANK, BLANK, BLANK, BLANK >>
INVOICE_2 == << StrCell(<<"I","N","V","O","I","C","E",":">>), StrCell(<<"2","4","H","C","0","1","7","1","3","-","2">>), BLANK, BLANK, BLANK >>
INVOICE_BARE == << StrCell(<<"I","n","v","o","i","c","e",":"," ","p","e","n","d","i","n","g">>), BLANK, BLANK, BLANK, BLANK >>
SKIP_ROW == << StrCell(<<"P","o","r","t"," ","O","f"," ","L","o","a","d","i","n","g">>), StrCell(<<"N","H","A","V","A">>), BLANK, BLANK, BLANK >>
DATA_1 == << StrCell(<<"A","1">>), StrCell(<<"P","I","N"," ","5"," ","+","O","R","-"," ","1","M","M","-","P","A","R","T"," ","N","O",".","X","-","M","O","D","E","L"," ","N","O",".","M","1","-">>), NumCell(5),
             FloatCell(2, <<"5">>), FloatCell(12, <<"3","4","6">>) >>
DATA_2 == << StrCell(<<"B","2">>), StrCell(<<"B","O","L","T","-">>), NumCell(7), NumCell(1), NumCell(7) >>

ConvRows == { HEADER, INVOICE_1, INVOICE_2, SKIP_ROW, DATA_1, DATA_2 }

MaxSheetRows == 4

ConvSheets == UNION {[1..k -> ConvRows] : k \in 0..MaxSheetRows}

\* workbooks of one sheet, among them one with an invoice number on two invoice
\* rows, one with an 'Invoice:' row without a number, three with a
\* 'Description' header and two with a 'DESC' header; and of two sheets that carry the same or another invoice number
ConvBooks ==
    {<<s>> : s \in ConvSheets}
        \cup {<< <<HEADER, INVOICE_1, DATA_1, INVOICE_1, DATA_2>> >>,
               << <<HEADER, INVOICE_1, INVOICE_BARE, DATA_2>> >>,
               << <<HEADER_LONG, INVOICE_1, DATA_1, DATA_2>> >>,
               << <<HEADER_LONG, INVOICE_1, DATA_2, INVOICE_2>> >>,
               << <<SKIP_ROW, HEADER_LONG, INVOICE_2, DATA_1>> >>,
               << <<HEADER_UPPER, INVOICE_1, DATA_1>> >>,
               << <<HEADER_UPPER, INVOICE_1, DATA_1, INVOICE_2>> >>}
        \cup {<<s1, s2>> : s1 \in {<<HEADER, INVOICE_1, DATA_1>>, <<INVOICE_2>>},
                           s2 \in {<<HEADER, INVOICE_1, DATA_2>>, <<HEADER, INVOICE_2, DATA_2, DATA_1>>, <<>>}}

InitConv ==
    /\ IdlePn
    /\ IdleHdr
    /\ IdleLoc
    /\ IdleCol
    /\ IdleDuty
    /\ IdleMatch
    /\ IdleRun
    /\ IdleExt
    /\ IdleMain
    /\ IdleNorm
    /\ conv_book \in ConvBooks
    /\ conv_sheet = 1
    /\ conv_idx = 1
    /\ conv_header_row = <<>>
    /\ current_invoice = <<>>
    /\ current_data = <<>>
    /\ sheet_data = <<>>
    /\ all_processed_data = <<>>
    /\ conv_pc = "scan"
    /\ conv_output = <<>>

\* convert-excel.py:191-222  one iteration of the loop of process_sheet; a
\* KeyError of process_dataframe leaves process_excel (304-306)
ScanRow ==
    /\ conv_pc = "scan"
    /\ conv_idx <= Len(conv_book[conv_sheet])
    /\ \E st \in {scan_row(SheetLocals, conv_book[conv_sheet][conv_idx])} :
        /\ conv_header_row' = st.header_row
        /\ current_invoice' = st.current_invoice
        /\ current_data' = st.current_data
        /\ sheet_data' = st.sheet_data
        /\ conv_pc' = IF st.raised THEN "raised" ELSE "scan"
    /\ conv_idx' = conv_idx + 1
    /\ UNCHANGED <<conv_book, conv_sheet, all_processed_data, conv_output>>
    /\ UNCHANGED notConv

\* convert-excel.py:224-229, 250-257  the end of process_sheet and the merge of
\* its result into all_processed_data; then the next sheet, read afresh
EndSheet ==
    /\ conv_pc = "scan"
    /\ conv_idx > Len(conv_book[conv_sheet])
    /\ \E st \in {save_batch(SheetLocals)} :
        IF st.raised
        THEN /\ conv_pc' = "raised"
             /\ UNCHANGED <<conv_sheet, conv_idx, conv_header_row, current_invoice,
                            current_data, sheet_data, all_processed_data>>
        ELSE /\ all_processed_data' = dict_update(all_processed_data, st.sheet_data)
             /\ conv_header_row' = <<>>
             /\ current_invoice' = <<>>
             /\ current_data' = <<>>
             /\ sheet_data' = <<>>
             /\ conv_idx' = 1
             /\ IF conv_sheet < Len(conv_book)
                THEN conv_sheet' = conv_sheet + 1 /\ conv_pc' = "scan"
                ELSE conv_sheet' = conv_sheet /\ conv_pc' = "write"
    /\ UNCHANGED <<conv_book, conv_output>>
    /\ UNCHANGED notConv

\* convert-excel.py:259-302  nothing is written when no invoice was found;
\* otherwise one sheet per invoice, in the order of all_processed_data
WriteOutput ==
    /\ conv_pc = "write"
    /\ IF all_processed_data = <<>>
       THEN conv_pc' = "no data" /\ conv_output' = conv_output
       ELSE /\ conv_pc' = "written"
            /\ conv_output' = [k \in 1..Len(all_processed_data) |->
                                  [sheet_name |-> output_sheet_name(all_processed_data[k].name),
                                   data |-> all_processed_data[k].df]]
    /\ UNCHANGED <<conv_book, conv_sheet, conv_idx, conv_header_row, current_invoice,
                   current_data, sheet_data, all_processed_data>>
    /\ UNCHANGED notConv

NextConv == ScanRow \/ EndSheet \/ WriteOutput

SpecConv == InitConv /\ [][NextConv]_vars

-----------------------------------------------------------------------------
(* Claims on the invoice converter                                         *)

\* the sheet being scanned
ConvSheet == conv_book[conv_sheet]

\* the position of the header row of a sheet: its first row, skip rows aside,
\* that reads as a header; 0 when it has none
HeaderPosition(sheet) ==
    LET hits == {j \in 1..Len(sheet) :
                    ~should_skip_row(sheet[j]) /\ ExcelConverter_is_header_row(sheet[j])}
    IN  IF hits = {} THEN 0 ELSE CHOOSE j \in hits : \A i \in hits : j <= i

\* the positions of the invoice rows of a sheet before position k
InvoiceRowsBefore(sheet, k) ==
    {j \in 1..(k - 1) : /\ ~should_skip_row(sheet[j])
                        /\ j # HeaderPosition(sheet)
                        /\ is_invoice_row(sheet[j]).is_invoice}

\* the row at position conv_idx is collected by this step
Collects == Len(current_data') = Len(current_data) + 1

\* the batch of the current invoice is closed by this step, at the next
\* invoice row or at the end of the sheet
Stores == current_data # <<>> /\ current_data' = <<>>

\* where the closed batch is found after the step: in sheet_data, or in
\* all_processed_data once the sheet is done
StoredIn == IF sheet_data' = <<>> THEN all_processed_data' ELSE sheet_data'

RowsCollectedAsClaimed ==
    Collects =>
        LET k == conv_idx
            seen == InvoiceRowsBefore(ConvSheet, k)
        IN  /\ current_data' = Append(current_data, ConvSheet[k])
            /\ HeaderPosition(ConvSheet) \in 1..(k - 1)
            /\ seen # {}
            /\ ~should_skip_row(ConvSheet[k])
            /\ ~is_invoice_row(ConvSheet[k]).is_invoice
            /\ current_invoice' = is_invoice_row(ConvSheet[MaxOf(seen)]).invoice_number

BatchStoredUnderItsInvoice ==
    Stores =>
        \E e \in 1..Len(StoredIn) :
            /\ StoredIn[e].name = current_invoice
            /\ Len(StoredIn[e].df.rows) = Len(current_data)

NoSkipRowCollected ==
    \A k \in 1..Len(current_data') : ~should_skip_row(current_data'[k])

\* C28: scanning the rows of a sheet in order, a row is collected only after
\* the header row and an invoice row of that sheet, and is itself no skip row,
\* not the header row and no invoice row; it joins the batch of the invoice
\* number seen last, each batch is stored under that number, and no skip row
\* is ever in a batch.
C28_RowScanner ==
    [][RowsCollectedAsClaimed /\ BatchStoredUnderItsInvoice /\ NoSkipRowCollected]_vars

\* a workbook was written from a sheet with a skip row between the invoice row
\* and a data row, and the data row is in the output
C28_Witness ==
    /\ conv_pc = "written"
    /\ \E k \in 3..Len(conv_book[1]) :
        /\ should_skip_row(conv_book[1][k - 1])
        /\ is_invoice_row(conv_book[1][k - 2]).is_invoice
        /\ ~should_skip_row(conv_book[1][k])
        /\ ~is_invoice_row(conv_book[1][k]).is_invoice
    /\ \E e \in 1..Len(conv_output) : Len(conv_output[e].data.rows) >= 1

\* the columns of a frame that carry a label
ColumnsNamed(frame, label) == {c \in 1..Len(frame.columns) : frame.columns[c] = label}

\* the frame stored by this step, under the invoice it was collected for
StoredFrame ==
    StoredIn[CHOOSE e \in 1..Len(StoredIn) : StoredIn[e].name = current_invoice].df

\* the frame has one 'Item Nos.' column that counts its rows 1, 2, ..., and
\* row k carries the part number of the k-th row collected
NumberedInSourceOrder(frame, collected_rows) ==
    /\ Len(frame.rows) = Len(collected_rows)
    /\ Cardinality(ColumnsNamed(frame, ITEM_NOS_DOT)) = 1
    /\ \A c \in ColumnsNamed(frame, ITEM_NOS_DOT) :
           \A k \in 1..Len(frame.rows) : frame.rows[k][c] = NumCell(k)
    /\ \A c \in ColumnsNamed(frame, StrCell(<<"P","/","N">>)) :
           \A k \in 1..Len(frame.rows) : \E j \in 1..Len(collected_rows[k]) :
               /\ conv_header_row[j] = StrCell(<<"P","/","N">>)
               /\ frame.rows[k][c] = collected_rows[k][j]

\* the header row of the sheet has a cell that reads 'DESC' once upper-cased
\* and stripped
HeaderHasDesc ==
    \E j \in 1..Len(conv_header_row) :
        StrStrip(StrUpper(PyStr(conv_header_row[j]))) = <<"D","E","S","C">>

\* C29 as stated: every frame stored for an invoice has the 'Item Nos.' values
\* 1, 2, ..., n in the source order of the n rows collected for it, and n rows.
C29_ItemNumbersAsClaimed ==
    [][Stores => NumberedInSourceOrder(StoredFrame, current_data)]_vars

\* C29: when the header row of the sheet has a 'DESC' cell, the frame stored
\* for an invoice has the 'Item Nos.' values 1, 2, ..., n in the source order
\* of the n rows collected for it, and exactly n rows; without such a cell the
\* n rows are stored as they are, with no 'Item Nos.' column.
C29_ItemNumbers ==
    [][Stores =>
        /\ HeaderHasDesc => NumberedInSourceOrder(StoredFrame, current_data)
        /\ ~HeaderHasDesc =>
            /\ Len(StoredFrame.rows) = Len(current_data)
            /\ ColumnsNamed(StoredFrame, ITEM_NOS_DOT) = {}]_vars

\* a workbook was written with an invoice of two numbered rows
C29_Witness ==
    /\ conv_pc = "written"
    /\ \E e \in 1..Len(conv_output) :
        /\ Len(conv_output[e].data.rows) = 2
        /\ \E c \in ColumnsNamed(conv_output[e].data, ITEM_NOS_DOT) :
            /\ conv_output[e].data.rows[1][c] = NumCell(1)
            /\ conv_output[e].data.rows[2][c] = NumCell(2)

\* the positions of the rows of a sheet that are collected as data
CollectedPositions(sheet) ==
    {k \in 1..Len(sheet) : /\ HeaderPosition(sheet) \in 1..(k - 1)
                           /\ InvoiceRowsBefore(sheet, k) # {}
                           /\ ~should_skip_row(sheet[k])
                           /\ ~is_invoice_row(sheet[k]).is_invoice}

\* the invoice number a collected row of a sheet falls under
InvoiceOf(sheet, k) ==
    is_invoice_row(sheet[MaxOf(InvoiceRowsBefore(sheet, k))]).invoice_number

\* the collected rows of the workbook under one invoice number, as pairs of
\* sheet and position
CollectedUnder(number) ==
    {p \in (1..Len(conv_book)) \X (1..(MaxSheetRows + 1)) :
        /\ p[2] \in CollectedPositions(conv_book[p[1]])
        /\ InvoiceOf(conv_book[p[1]], p[2]) = number}

\* the invoice numbers of the workbook with collected rows
InvoiceNumbers ==
    UNION {{InvoiceOf(conv_book[s], k) : k \in CollectedPositions(conv_book[s])} :
              s \in 1..Len(conv_book)}

\* the rows written for one invoice number
WrittenFor(number) ==
    LET hits == {e \in 1..Len(conv_output) : conv_output[e].sheet_name = number}
    IN  IF hits = {} THEN <<>> ELSE conv_output[CHOOSE e \in hits : TRUE].data.rows

\* C30: in the workbook written, every row collected under an invoice number is
\* in the sheet of that number: the sheet has as many rows as were collected
\* under the number in all batches and sheets, and the first cell of each
\* collected row is in one of them.
C30_NoCollectedRowLost ==
    conv_pc = "written" =>
        \A number \in InvoiceNumbers :
            /\ Len(WrittenFor(number)) = Cardinality(CollectedUnder(number))
            /\ \A p \in CollectedUnder(number) :
                   \E o \in 1..Len(WrittenFor(number)) :
                       \E c \in 1..Len(WrittenFor(number)[o]) :
                           WrittenFor(number)[o][c] = conv_book[p[1]][p[2]][1]

====
